---- MODULE Spec2Model ----
(***************************************************************************)
(* Model of the computer-use test API: the Netlify handler (admission     *)
(* gate, option merging, timeout race), runTest, and the agent execution  *)
(* loop of the two backends (ComputerUse over a Docker container,         *)
(* PuppeteerComputerUse over a headless browser).                         *)
(*                                                                         *)
(* One action is one run-to-completion step of the JavaScript program     *)
(* between two awaits of an external party (Docker daemon, browser,       *)
(* remote agent, timer).  Texts are abstracted to the constant part of    *)
(* the message the code builds.                                           *)
(***************************************************************************)
EXTENDS Integers, Sequences, FiniteSets, TLC

\* ------------------------------------------------------------------------
\* Program constants
\* ------------------------------------------------------------------------

\* this.maxIterations = 20, both backends
maxIterations == 20

\* CONFIG.MAX_CONCURRENT_TESTS
MAX_CONCURRENT_TESTS == 1

\* CONFIG.MAX_TEST_DURATION (seconds), with MAX_TEST_DURATION unset in the environment
MAX_TEST_DURATION == 300

\* CONFIG.WEBSITE_URL, with WEBSITE_URL unset in the environment
WEBSITE_URL == "app.giftround.com"

\* ------------------------------------------------------------------------
\* Bounds of the model
\* ------------------------------------------------------------------------

\* How many responses of one run may carry more than one tool_use block.
MaxMultiBlock == 1

\* How many entries the screenshot trail may hold before the agent stops
\* asking for further 'screenshot' actions.
MaxTrail == 3

\* Run slots: one slot holds one admitted request (one testId) until its
\* run has settled and its response was delivered.
Runs == {1, 2}

\* ------------------------------------------------------------------------
\* State
\* ------------------------------------------------------------------------
VARIABLES
    executionMode,  \* "docker" | "puppeteer" (USE_DOCKER / DOCKER_AVAILABLE)
    apiKey,         \* CONFIG.ANTHROPIC_API_KEY is set
    door,           \* the answer of the last request turned away at the front door
    dm,             \* a DockerManager object taken on its own
    pm,             \* a PuppeteerComputerUse object taken on its own
    call,           \* the DockerManager.execute call in flight on dm
    wire,           \* the output stream of an exec, as execute's handlers see it
    scroll,         \* one scroll invocation as each adapter carries it out
    scan,           \* cleanupOrphanedContainers, run when the module is loaded
    rl,             \* the RateLimiter singleton and its clock
    eh,             \* the last evaluation of an ErrorHandler function
    activeTests,    \* the handler module's Set of active test ids
    hpc,            \* per slot: handler position "free" | "racing" | "returned"
    response,       \* per slot: the HTTP response delivered by the handler
    testOptions,    \* per slot: the merged options handed to runTest
    deadline,       \* per slot: seconds given to setTimeout, as a 0/1-element set
    rpc,            \* per slot: position of runTest / execute / the loop
    hung,           \* per slot: the pending external call never returns
    container,      \* per slot: "none" (no DockerManager) | "null" | "live"
    browser,        \* per slot: "null" | "noPage" | "open" (this.browser / this.page)
    computerUse,    \* per slot: runTest's computerUse object was constructed
    created,        \* per slot: a container / browser was created for the run
    cleanupCalls,   \* per slot: invocations of the backend's cleanup()
    navigatedTo,    \* per slot: sites the backend was sent to, a 0/1-element set
    iteration,      \* per slot: the loop's iteration counter
    exchanges,      \* per slot: requests sent to the remote agent
    messages,       \* per slot: the conversation (roles and invocation ids)
    pending,        \* per slot: the agent response being processed
    lastDispatch,   \* per slot: the tool dispatch of the current iteration
    screenshots,    \* per slot: the screenshot trail (step labels)
    execResult,     \* per slot: how computerUse.execute / initialize ended
    outcome         \* per slot: how runTest settled

vars == << executionMode, apiKey, door, dm, pm, call, wire, scroll, scan, rl, eh, activeTests, hpc, response, testOptions, deadline,
           rpc, hung, container, browser, computerUse, created, cleanupCalls, navigatedTo,
           iteration, exchanges, messages, pending, lastDispatch, screenshots,
           execResult, outcome >>

\* ------------------------------------------------------------------------
\* Values
\* ------------------------------------------------------------------------

Min(a, b) == IF a <= b THEN a ELSE b

\* { ...a, ...b }: object spread, the later object's keys win
Spread(a, b) ==
    [k \in (DOMAIN a) \cup (DOMAIN b) |-> IF k \in DOMAIN b THEN b[k] ELSE a[k]]

Field(k, v) == [x \in {k} |-> v]

NoOptions == [x \in {} |-> 0]

\* What a client may put in options.timeout: absent, 0, below and above the maximum.
TimeoutChoices == {NoOptions, Field("timeout", 0), Field("timeout", 60),
                   Field("timeout", 600)}

ScreenshotChoices == {NoOptions, Field("takeScreenshots", FALSE)}

SiteChoices == {NoOptions, Field("websiteUrl", "evil.example.com")}

\* The options objects of the requests the model sends.
ClientOptions ==
    {Spread(Spread(t, s), u) : t \in TimeoutChoices, s \in ScreenshotChoices,
                               u \in SiteChoices}

\* Options that leave timeout and site alone: the loop does not read them.
PlainOptions == ScreenshotChoices

\* options.timeout || CONFIG.MAX_TEST_DURATION
TimeoutOrDefault(options) ==
    IF "timeout" \in DOMAIN options /\ options["timeout"] # 0
    THEN options["timeout"] ELSE MAX_TEST_DURATION

\* The testOptions object literal of exports.handler.
MergeOptions(options) ==
    Spread([timeout |-> Min(TimeoutOrDefault(options), MAX_TEST_DURATION),
            takeScreenshots |-> ~("takeScreenshots" \in DOMAIN options
                                  /\ options["takeScreenshots"] = FALSE),
            websiteUrl |-> WEBSITE_URL],
           options)

\* setTimeout(..., testOptions.timeout * 1000), in seconds
ArmedDeadline(topts) == topts["timeout"]

\* this.websiteUrl = this.options.websiteUrl || 'app.giftround.com'
SiteOf(topts) ==
    IF "websiteUrl" \in DOMAIN topts /\ topts["websiteUrl"] # ""
    THEN topts["websiteUrl"] ELSE "app.giftround.com"

\* if (activeTests.size >= CONFIG.MAX_CONCURRENT_TESTS) return 429
GateOpen(active) == Cardinality(active) < MAX_CONCURRENT_TESTS

\* ------------------------------------------------------------------------
\* The front door of exports.handler
\* ------------------------------------------------------------------------

\* A request: its HTTP method and the state of its body ("valid": JSON with
\* a non-empty string instruction; "noInstruction": JSON without one;
\* "nonString": instruction is not a string; "malformed": not JSON).
Request(method, body) == [method |-> method, body |-> body]

Requests ==
    {Request(m, b) : m \in {"OPTIONS", "GET", "POST"},
                     b \in {"valid", "noInstruction", "nonString", "malformed"}}

ValidPost == Request("POST", "valid")

\* An answer of the front door: status code, the error text of the body
\* ("" for the empty body of OPTIONS) and the body's retryAfter (0: absent).
Answer(status, error) == [status |-> status, error |-> error, retryAfter |-> 0]

\* The retryAfter the handler puts into the body of its 429.
GateRetryAfter == 60

RetryAfter(answer, seconds) == [answer EXCEPT !.retryAfter = seconds]

NoAnswer == Answer(0, "")

\* The request passed every check: a run is started for it.
Admitted == Answer(0, "admitted")

\* The checks of exports.handler in the order of the code, up to the
\* registration of the test id.
FrontDoor(req, key, active) ==
    CASE req.method = "OPTIONS" -> Answer(200, "")
      [] req.method # "POST" -> Answer(405, "Method not allowed. Use POST.")
      [] ~key -> Answer(500, "Server configuration error: Missing API key")
      [] req.body = "malformed" -> Answer(500, "SyntaxError")
      [] req.body # "valid" -> Answer(400, "Missing or invalid instruction")
      [] ~GateOpen(active) ->
            RetryAfter(Answer(429, "Too many concurrent tests"), GateRetryAfter)
      [] OTHER -> Admitted

\* ------------------------------------------------------------------------
\* Agent responses: content blocks
\* ------------------------------------------------------------------------

NoBlock == [type |-> "none", id |-> 0, name |-> "", action |-> "", arg |-> ""]

TextBlock == [type |-> "text", id |-> 0, name |-> "", action |-> "", arg |-> ""]

ToolUse(id, name, action, arg) ==
    [type |-> "tool_use", id |-> id, name |-> name, action |-> action, arg |-> arg]

\* The invocations the agent may ask for: name, input.action, and the state of
\* the fields the action reads ("ok", "missing", or, for a coordinate,
\* "outOfRange": outside the 1280x720 display).
ToolInputs ==
    {<<"computer", "screenshot", "ok">>,
     <<"computer", "click", "ok">>, <<"computer", "click", "missing">>,
     <<"computer", "click", "outOfRange">>,
     <<"computer", "type", "ok">>, <<"computer", "type", "missing">>,
     <<"computer", "key", "ok">>,
     <<"computer", "scroll", "ok">>, <<"computer", "scroll", "missing">>,
     <<"computer", "scroll", "outOfRange">>,
     <<"computer", "hover", "ok">>,
     <<"computer", "", "missing">>,
     <<"bash", "", "ok">>, <<"bash", "", "missing">>,
     <<"text_editor", "", "ok">>,
     <<"browser", "", "ok">>}

\* The agent of the handler-level specifications: it clicks or it stops.
StubInputs == {<<"computer", "click", "ok">>}

\* Invocation identifier of the j-th block of the response to exchange e.
BlockId(e, j) == 10 * e + j

\* response.content.find(block => block.type === 'tool_use')
FirstToolUse(content) ==
    LET idx == {i \in 1..Len(content) : content[i].type = "tool_use"}
    IN  IF idx = {} THEN NoBlock
        ELSE content[CHOOSE i \in idx : \A j \in idx : i <= j]

IsToolUse(b) == b.type = "tool_use"

RECURSIVE ToolUseIds(_)
\* The invocation identifiers of the tool_use blocks of a content, in order.
ToolUseIds(content) ==
    IF content = <<>> THEN <<>>
    ELSE (IF content[1].type = "tool_use" THEN <<content[1].id>> ELSE <<>>)
         \o ToolUseIds(Tail(content))

\* ------------------------------------------------------------------------
\* Conversation turns
\* ------------------------------------------------------------------------

\* A turn keeps its role, the invocation identifiers it carries and its image
\* block (0: none).
Turn(role, uses, results) ==
    [role |-> role, uses |-> uses, results |-> results, image |-> 0]

\* The initial messages array: the instruction.
InstructionTurn == Turn("user", <<>>, <<>>)

\* messages.push({role: 'assistant', content: response.content})
AssistantTurn(content) == Turn("assistant", ToolUseIds(content), <<>>)

\* messages.push({role: 'user', content: [{type: 'tool_result', tool_use_id: toolUse.id, ...}]})
ToolResultTurn(toolUse) == Turn("user", <<>>, <<toolUse.id>>)

\* The user turn that carries lastScreenshot as its image block, followed by
\* a text block.  shot: the iteration in which the screenshot was taken.
ScreenshotTurn(shot) == [Turn("user", <<>>, <<>>) EXCEPT !.image = shot]

\* Mutant of RequestMessages: the screenshot turn is appended without the
\* canned assistant turn before it.
RequestMessages_NoCanned(msgs, shot) == msgs \o <<ScreenshotTurn(shot)>>

\* The messages of one request: messages.concat([canned assistant turn,
\* screenshot turn]); the messages array itself is left as it was.
RequestMessages(msgs, shot) ==
    msgs \o <<Turn("assistant", <<>>, <<>>), ScreenshotTurn(shot)>>

\* ------------------------------------------------------------------------
\* Tool dispatch.  A handler's result: raised (it threw), text (the returned
\* text or the thrown message), ops (backend operations issued), settled (the
\* settle wait after the action ran), shot (a trail entry was appended).
\* env.ok: the backend operation succeeds; env.shot: the trail capture succeeds.
\* ------------------------------------------------------------------------

Result(raised, text, ops, settled, shot) ==
    [raised |-> raised, text |-> text, ops |-> ops, settled |-> settled, shot |-> shot]

Returned(text, ops, settled) == Result(FALSE, text, ops, settled, FALSE)

Thrown(text, ops) == Result(TRUE, text, ops, FALSE, FALSE)

\* Mutant of Actuate: the handler returns without its settle wait.
Actuate_NoSettle(text, ops, env) ==
    IF env.ok THEN Returned(text, ops, FALSE) ELSE Thrown("backend failure", ops)

\* One awaited backend operation followed by the action's log line and settle wait.
Actuate(text, ops, env) ==
    IF env.ok THEN Returned(text, ops, TRUE) ELSE Thrown("backend failure", ops)

\* case 'screenshot' of either handleComputerAction
ScreenshotAction(ts, env) ==
    IF ~env.ok THEN Thrown("Failed to take screenshot", 1)
    ELSE Result(FALSE, "Screenshot taken", IF ts THEN 2 ELSE 1, FALSE, ts /\ env.shot)

\* ComputerUse.handleComputerAction (container backend)
DockerHandleComputerAction(tu, ts, env) ==
    CASE tu.action = "" /\ tu.arg = "missing" -> Thrown("TypeError", 0)
      [] tu.action = "screenshot" -> ScreenshotAction(ts, env)
      [] tu.action = "click" ->
            IF tu.arg = "missing" THEN Thrown("TypeError", 0)
            ELSE Actuate("Clicked at", 1, env)
      [] tu.action = "type" ->
            IF tu.arg = "missing" THEN Thrown("TypeError", 0)
            ELSE Actuate("Typed:", 1, env)
      [] tu.action = "key" -> Actuate("Pressed key:", 1, env)
      [] tu.action = "scroll" ->
            IF tu.arg = "missing" THEN Thrown("TypeError", 0)
            ELSE Actuate("Scrolled", 1, env)
      [] OTHER -> Thrown("Unknown computer action", 0)

\* ComputerUse.handleBashAction
HandleBashAction(tu, env) ==
    IF tu.arg = "missing" THEN Thrown("TypeError", 0)
    ELSE IF env.ok THEN Returned("Command output", 1, FALSE)
    ELSE Returned("Error executing command", 1, FALSE)

\* ComputerUse.handleTextEditorAction
HandleTextEditorAction == Returned("Text editor not available in web testing context", 0, FALSE)

\* PuppeteerComputerUse.handleComputerAction (process backend)
PuppeteerHandleComputerAction(tu, ts, env) ==
    CASE tu.action = "" /\ tu.arg = "missing" -> Thrown("TypeError", 0)
      [] tu.action = "screenshot" -> ScreenshotAction(ts, env)
      [] tu.action = "click" ->
            IF tu.arg = "missing" THEN Thrown("TypeError", 0)
            ELSE Actuate("Clicked at", 1, env)
      [] tu.action = "type" ->
            IF tu.arg = "missing" THEN Thrown("backend failure", 1)
            ELSE Actuate("Typed:", 1, env)
      [] tu.action = "key" -> Actuate("Pressed key:", 1, env)
      [] tu.action = "scroll" ->
            IF tu.arg = "missing" THEN Thrown("TypeError", 0)
            ELSE Actuate("Scrolled", 2, env)
      [] OTHER -> Thrown("Unknown computer action", 0)

\* Mutant of DispatchTool: the default case runs the name as a shell command
\* (container) or treats it as 'computer' (process) instead of throwing.
DispatchTool_NoDefault(mode, tu, ts, env) ==
    IF mode = "docker"
    THEN CASE tu.name = "computer" -> DockerHandleComputerAction(tu, ts, env)
           [] tu.name = "text_editor" -> HandleTextEditorAction
           [] OTHER -> HandleBashAction(tu, env)
    ELSE PuppeteerHandleComputerAction([tu EXCEPT !.action = "click"], ts, env)

\* Mutant of DispatchTool: the process adapter dispatches through the
\* container adapter's switch, so 'bash' reaches handleBashAction.
DispatchTool_SharedSwitch(mode, tu, ts, env) ==
    CASE tu.name = "computer" ->
            IF mode = "docker" THEN DockerHandleComputerAction(tu, ts, env)
            ELSE PuppeteerHandleComputerAction(tu, ts, env)
      [] tu.name = "bash" -> HandleBashAction(tu, env)
      [] tu.name = "text_editor" -> HandleTextEditorAction
      [] OTHER -> Thrown("Unknown tool", 0)

\* getComputerUseTools(): the names of the tools offered with every request.
GetComputerUseTools(mode) ==
    IF mode = "docker" THEN {"computer", "bash", "text_editor"} ELSE {"computer"}

\* The switch (name) of executeComputerUseTool, before its catch.
DispatchTool(mode, tu, ts, env) ==
    IF mode = "docker"
    THEN CASE tu.name = "computer" -> DockerHandleComputerAction(tu, ts, env)
           [] tu.name = "bash" -> HandleBashAction(tu, env)
           [] tu.name = "text_editor" -> HandleTextEditorAction
           [] OTHER -> Thrown("Unknown tool", 0)
    ELSE CASE tu.name = "computer" -> PuppeteerHandleComputerAction(tu, ts, env)
           [] OTHER -> Thrown("Unknown tool", 0)

\* catch (error) { addLog(...); return `Error: ${error.message}` }
CatchToText(res) ==
    IF res.raised THEN [res EXCEPT !.raised = FALSE, !.text = "Error: " \o res.text]
    ELSE res

\* Mutant of ExecuteComputerUseTool: no try/catch around the switch.
ExecuteComputerUseTool_NoCatch(mode, tu, ts, env) == DispatchTool(mode, tu, ts, env)

\* executeComputerUseTool of either backend
ExecuteComputerUseTool(mode, tu, ts, env) == CatchToText(DispatchTool(mode, tu, ts, env))

\* Mutant of LoopContinues: an off-by-one loop test.
LoopContinues_OffByOne(it) == it <= maxIterations

\* while (iteration < this.maxIterations)
LoopContinues(it) == it < maxIterations

\* Mutant of AfterLoop: the code after the loop throws whatever the counter is.
AfterLoop_NoReturn(it) ==
    [kind |-> "throw", msg |-> "Maximum iterations reached", iterations |-> it]

\* The code after the loop: the cap check and the return value.
AfterLoop(it) ==
    IF it >= maxIterations
    THEN [kind |-> "throw", msg |-> "Maximum iterations reached", iterations |-> it]
    ELSE [kind |-> "return", msg |-> "", iterations |-> it]

\* Mutant of CaptureScreenshot: the options.takeScreenshots guard is missing.
CaptureScreenshot_NoGuard(trail, ts, usable, ok, step) ==
    IF usable /\ ok THEN Append(trail, step) ELSE trail

\* captureScreenshot(step) of either backend: the trail after the call.
CaptureScreenshot(trail, ts, usable, ok, step) ==
    IF ts /\ usable /\ ok THEN Append(trail, step) ELSE trail

\* ------------------------------------------------------------------------
\* DockerManager: values
\* ------------------------------------------------------------------------

\* setupCommands.length
SetupSteps == 12

\* The setTimeout of execute: 30000 ms, in seconds
ExecTimeout == 30

\* The clock of a call advances in steps of TickSeconds up to MaxElapsed.
TickSeconds == 10

MaxElapsed == 60

\* How many cleanup() calls are made on one backend object.
MaxCleanups == 2

\* The last method called on a backend object: its name, how it ended
\* ("raised: ..." or the returned value), whether it issued an operation on the
\* container / browser, and for cleanup() how stop and remove went ("none":
\* not attempted).
Op(op, result, touched, stop, remove) ==
    [op |-> op, result |-> result, touched |-> touched, stop |-> stop, remove |-> remove]

NoOp == Op("none", "", FALSE, "none", "none")

\* new PuppeteerComputerUse(...): browser "null" | "noPage" (this.browser set,
\* this.page not) | "open"; cleanups the cleanup() calls completed.
NewProcess == [browser |-> "null", cleanups |-> 0, last |-> NoOp]

\* new DockerManager(testId): pc is the position of initialize(), step the
\* index of the next setup command, attempted the number of setup commands
\* run, earlyFailed / readyFailed whether a command before the last / the
\* last command (the xdpyinfo display test) failed, error what initialize raised.
NewManager ==
    [pc |-> "new", container |-> "null", step |-> 0, attempted |-> 0,
     earlyFailed |-> FALSE, readyFailed |-> FALSE, error |-> "",
     cleanups |-> 0, last |-> NoOp]

\* No execute call: pc is the position of the call, elapsed the seconds since
\* it was made, armedAt when its timer was set (none: {}), result how it settled.
NoCall == [pc |-> "idle", elapsed |-> 0, armedAt |-> {}, result |-> ""]

\* ------------------------------------------------------------------------
\* DockerManager.execute: the multiplexed output stream
\* ------------------------------------------------------------------------

\* Stream types of a frame header.
STDOUT == 1

STDERR == 2

\* Length of a frame header: type, three zero bytes, four bytes of size.
HeaderLen == 8

\* Bounds of the streams: frames per stream, bytes per payload, chunks the
\* stream is delivered in.
MaxFrames == 2

MaxPayload == 1

MaxChunks == 3

\* Payload bytes: a letter and a blank.
PayloadBytes == {97, 32}

Whitespace == {9, 10, 13, 32}

RECURSIVE SeqsUpTo(_, _)
\* The non-empty sequences over S of length at most n.
SeqsUpTo(S, n) ==
    IF n = 0 THEN {}
    ELSE LET shorter == SeqsUpTo(S, n - 1)
         IN  {<<x>> : x \in S} \cup shorter \cup
             {Append(q, x) : q \in shorter, x \in S}

Frame(type, payload) == [type |-> type, payload |-> payload]

Frames == {Frame(t, p) : t \in {STDOUT, STDERR}, p \in SeqsUpTo(PayloadBytes, MaxPayload)}

\* The streams an exec may produce.
FrameSeqs == SeqsUpTo(Frames, MaxFrames)

\* The bytes of one frame on the wire.
FrameBytes(f) == <<f.type, 0, 0, 0, 0, 0, 0, Len(f.payload)>> \o f.payload

RECURSIVE WireBytes(_)
WireBytes(frames) ==
    IF frames = <<>> THEN <<>>
    ELSE FrameBytes(frames[1]) \o WireBytes(Tail(frames))

RECURSIVE PayloadOf(_, _)
\* The concatenated payloads of the frames of one type.
PayloadOf(frames, type) ==
    IF frames = <<>> THEN <<>>
    ELSE (IF frames[1].type = type THEN frames[1].payload ELSE <<>>)
         \o PayloadOf(Tail(frames), type)

\* data.slice(8)
Slice8(chunk) == SubSeq(chunk, HeaderLen + 1, Len(chunk))

\* stream.on('data'): where the chunk goes, by its first byte.
OnData(w, chunk) ==
    CASE chunk[1] = STDOUT -> [w EXCEPT !.output = @ \o Slice8(chunk)]
      [] chunk[1] = STDERR -> [w EXCEPT !.errorOutput = @ \o Slice8(chunk)]
      [] OTHER -> [w EXCEPT !.output = @ \o chunk]

RECURSIVE TrimLeft(_)
TrimLeft(t) == IF t # <<>> /\ t[1] \in Whitespace THEN TrimLeft(Tail(t)) ELSE t

RECURSIVE TrimRight(_)
TrimRight(t) ==
    IF t # <<>> /\ t[Len(t)] \in Whitespace THEN TrimRight(SubSeq(t, 1, Len(t) - 1))
    ELSE t

\* output.trim()
Trim(t) == TrimRight(TrimLeft(t))

\* No exec stream: pc "none" | "open" | "resolved"; frames what the command
\* writes; rest the bytes not yet delivered; chunks the 'data' events so far
\* and aligned whether each of them was exactly one frame; output /
\* errorOutput the handler's accumulators; returned what execute resolved with.
NoWire ==
    [pc |-> "none", frames |-> <<>>, rest |-> <<>>, chunks |-> 0, aligned |-> TRUE,
     output |-> <<>>, errorOutput |-> <<>>, returned |-> <<>>]

\* No scroll has been asked for.
NoScroll == [pc |-> "none", input |-> <<>>, docker |-> <<>>, process |-> <<>>]

\* cleanupOrphanedContainers has not been called.
NoScan ==
    [pc |-> "none", daemon |-> <<>>, listed |-> FALSE, queue |-> <<>>,
     attempted |-> {}, removed |-> {}, raised |-> FALSE]

\* ------------------------------------------------------------------------
\* RateLimiter: values.  Times are in minutes.
\* ------------------------------------------------------------------------

\* config.maxRequestsPerHour
maxRequestsPerHour == 10

\* config.maxConcurrentTests
maxConcurrentTests == 1

\* config.blockDurationMinutes
blockDurationMinutes == 60

\* hourInMs, in minutes
HourMinutes == 60

\* The period of the cleanup interval, in minutes
CleanupMinutes == 30

\* The clock advances in steps of TickMinutes up to MaxNow.
TickMinutes == 30

MaxNow == 120

\* recordRequest is called while count is below MaxCount.
MaxCount == 11

IPs == {"a", "b"}

TestIds == {"t1", "t2"}

Ticks == {t \in 0..MaxNow : t % TickMinutes = 0}

\* this.requests has no entry for the IP
NoEntry == [present |-> FALSE, count |-> 0, resetTime |-> 0, blocked |-> FALSE, blockUntil |-> 0]

\* The result of the last isRequestAllowed call, and the reason of the one before.
NoVerdict == [ip |-> "", allowed |-> FALSE, reason |-> "none", remaining |-> 0,
              before |-> "none"]

\* new RateLimiter(): requests and tests are empty; allowedAt counts, per IP
\* and time, the requests that were allowed and recorded.
NewLimiter ==
    [requests |-> [ip \in IPs |-> NoEntry], tests |-> {}, now |-> 0,
     verdict |-> NoVerdict, allowedAt |-> [ip \in IPs |-> [t \in Ticks |-> 0]]]

\* No ErrorHandler function has been evaluated.
NoEvaluation == [fn |-> "none", input |-> <<>>, output |-> <<>>]

\* ------------------------------------------------------------------------
\* Initial state: the modules are loaded, no request has arrived
\* ------------------------------------------------------------------------

NoResponse == [status |-> 0, success |-> FALSE, error |-> "", screenshots |-> <<>>]

NoResult == [kind |-> "none", msg |-> "", iterations |-> 0]

NoOutcome == [kind |-> "none", message |-> "", screenshots |-> <<>>, iterations |-> 0]

NoDispatch == [use |-> NoBlock, result |-> Returned("", 0, FALSE), delayed |-> FALSE]

Init ==
    /\ executionMode \in {"docker", "puppeteer"}
    /\ apiKey \in BOOLEAN
    /\ door = NoAnswer
    /\ dm = NewManager
    /\ pm = NewProcess
    /\ call = NoCall
    /\ wire = NoWire
    /\ scroll = NoScroll
    /\ scan = NoScan
    /\ rl = NewLimiter
    /\ eh = NoEvaluation
    /\ activeTests = {}
    /\ hpc = [r \in Runs |-> "free"]
    /\ response = [r \in Runs |-> NoResponse]
    /\ testOptions = [r \in Runs |-> NoOptions]
    /\ deadline = [r \in Runs |-> {}]
    /\ rpc = [r \in Runs |-> "idle"]
    /\ hung = [r \in Runs |-> FALSE]
    /\ container = [r \in Runs |-> "none"]
    /\ browser = [r \in Runs |-> "null"]
    /\ computerUse = [r \in Runs |-> FALSE]
    /\ created = [r \in Runs |-> FALSE]
    /\ cleanupCalls = [r \in Runs |-> 0]
    /\ navigatedTo = [r \in Runs |-> {}]
    /\ iteration = [r \in Runs |-> 0]
    /\ exchanges = [r \in Runs |-> 0]
    /\ messages = [r \in Runs |-> <<>>]
    /\ pending = [r \in Runs |-> <<>>]
    /\ lastDispatch = [r \in Runs |-> NoDispatch]
    /\ screenshots = [r \in Runs |-> <<>>]
    /\ execResult = [r \in Runs |-> NoResult]
    /\ outcome = [r \in Runs |-> NoOutcome]

\* ------------------------------------------------------------------------
\* exports.handler
\* ------------------------------------------------------------------------

\* A slot is free for a new test id once its previous request was answered
\* and its run has settled (nothing refers to the old run any more).
SlotFree(r) == hpc[r] = "free" \/ (hpc[r] = "returned" /\ rpc[r] = "done")

\* A valid POST passes the gate: the test id is registered, the options are
\* merged, runTest is started (up to its first await) and the timer is armed.
HandlerAdmit(r, options) ==
    /\ SlotFree(r)
    /\ FrontDoor(ValidPost, apiKey, activeTests) = Admitted
    /\ activeTests' = activeTests \cup {r}
    /\ hpc' = [hpc EXCEPT ![r] = "racing"]
    /\ response' = [response EXCEPT ![r] = NoResponse]
    /\ testOptions' = [testOptions EXCEPT ![r] = MergeOptions(options)]
    /\ deadline' = [deadline EXCEPT ![r] = {ArmedDeadline(MergeOptions(options))}]
    /\ rpc' = [rpc EXCEPT ![r] = "init"]
    /\ hung' = [hung EXCEPT ![r] = FALSE]
    /\ container' = [container EXCEPT ![r] =
                        IF executionMode = "docker" THEN "null" ELSE "none"]
    /\ browser' = [browser EXCEPT ![r] = "null"]
    /\ computerUse' = [computerUse EXCEPT ![r] = executionMode = "puppeteer"]
    /\ created' = [created EXCEPT ![r] = FALSE]
    /\ cleanupCalls' = [cleanupCalls EXCEPT ![r] = 0]
    /\ navigatedTo' = [navigatedTo EXCEPT ![r] = {}]
    /\ iteration' = [iteration EXCEPT ![r] = 0]
    /\ exchanges' = [exchanges EXCEPT ![r] = 0]
    /\ messages' = [messages EXCEPT ![r] = <<>>]
    /\ pending' = [pending EXCEPT ![r] = <<>>]
    /\ lastDispatch' = [lastDispatch EXCEPT ![r] = NoDispatch]
    /\ screenshots' = [screenshots EXCEPT ![r] = <<>>]
    /\ execResult' = [execResult EXCEPT ![r] = NoResult]
    /\ outcome' = [outcome EXCEPT ![r] = NoOutcome]
    /\ UNCHANGED << executionMode, apiKey, door, dm, pm, call, wire, scroll, scan, rl, eh >>

runVars == << rpc, hung, container, browser, computerUse, created, cleanupCalls,
              navigatedTo, iteration, exchanges, messages, pending, lastDispatch,
              screenshots, execResult, outcome >>

\* Mutant of HandlerReject: the test id is generated and registered before
\* the checks, and the early return leaves it in activeTests.
HandlerReject_Registers(r, req) ==
    /\ FrontDoor(req, apiKey, activeTests) # Admitted
    /\ door' = FrontDoor(req, apiKey, activeTests)
    /\ activeTests' = activeTests \cup {r}
    /\ UNCHANGED << executionMode, apiKey, dm, pm, call, wire, scroll, scan, rl, eh, hpc, response,
                    testOptions, deadline, runVars >>

\* A request is turned away at the front door: the handler answers, and its
\* finally finds testId undefined.  r: the id the request would have got.
HandlerReject(r, req) ==
    /\ FrontDoor(req, apiKey, activeTests) # Admitted
    /\ door' = FrontDoor(req, apiKey, activeTests)
    /\ UNCHANGED << executionMode, apiKey, dm, pm, call, wire, scroll, scan, rl, eh, activeTests, hpc, response,
                    testOptions, deadline, runVars >>

\* The 200 response built from runTest's result, or the 500 built in the catch.
ResponseOf(o) ==
    IF o.kind = "success"
    THEN [status |-> 200, success |-> TRUE, error |-> "", screenshots |-> o.screenshots]
    ELSE [status |-> 500, success |-> FALSE, error |-> o.message, screenshots |-> <<>>]

\* runTest settled first: the handler answers and, in its finally, removes the id.
HandlerReturn(r) ==
    /\ hpc[r] = "racing"
    /\ rpc[r] = "done"
    /\ response' = [response EXCEPT ![r] = ResponseOf(outcome[r])]
    /\ activeTests' = activeTests \ {r}
    /\ hpc' = [hpc EXCEPT ![r] = "returned"]
    /\ deadline' = [deadline EXCEPT ![r] = {}]
    /\ UNCHANGED << executionMode, apiKey, door, dm, pm, call, wire, scroll, scan, rl, eh, testOptions, runVars >>

\* Mutant of TimeoutFires: the handler answers 500 but its finally does not
\* delete the test id.
TimeoutFires_KeepsId(r) ==
    /\ hpc[r] = "racing"
    /\ rpc[r] # "done"
    /\ response' = [response EXCEPT ![r] =
          [status |-> 500, success |-> FALSE, error |-> "Test timeout",
           screenshots |-> <<>>]]
    /\ hpc' = [hpc EXCEPT ![r] = "returned"]
    /\ deadline' = [deadline EXCEPT ![r] = {}]
    /\ UNCHANGED << executionMode, apiKey, door, dm, pm, call, wire, scroll, scan, rl, eh, activeTests, testOptions,
                    runVars >>

\* The timer fires first: the race rejects with 'Test timeout', the handler
\* answers 500 and removes the id.  Nothing is done to the run.
TimeoutFires(r) ==
    /\ hpc[r] = "racing"
    /\ rpc[r] # "done"
    /\ response' = [response EXCEPT ![r] =
          [status |-> 500, success |-> FALSE, error |-> "Test timeout",
           screenshots |-> <<>>]]
    /\ activeTests' = activeTests \ {r}
    /\ hpc' = [hpc EXCEPT ![r] = "returned"]
    /\ deadline' = [deadline EXCEPT ![r] = {}]
    /\ UNCHANGED << executionMode, apiKey, door, dm, pm, call, wire, scroll, scan, rl, eh, testOptions, runVars >>

handlerVars == << executionMode, apiKey, door, dm, pm, call, wire, scroll, scan, rl, eh, activeTests, hpc, response, testOptions, deadline >>

\* An awaited call to the daemon, the browser or the agent that never returns.
AwaitingExternal(r) == rpc[r] \in {"init", "navigate", "loopHead", "awaitAgent", "tool"}

Hang(r) ==
    /\ AwaitingExternal(r)
    /\ ~hung[r]
    /\ hung' = [hung EXCEPT ![r] = TRUE]
    /\ UNCHANGED << handlerVars, rpc, container, browser, computerUse, created,
                    cleanupCalls, navigatedTo, iteration, exchanges, messages,
                    pending, lastDispatch, screenshots, execResult, outcome >>

\* ------------------------------------------------------------------------
\* runTest, execute and the agent loop
\* ------------------------------------------------------------------------

Throw(msg, it) == [kind |-> "throw", msg |-> msg, iterations |-> it]

\* Mutant of UnwindTo: a raised failure is swallowed and the loop is entered.
UnwindTo_Swallows(res) ==
    IF res.kind = "throw" THEN "loopHead"
    ELSE IF executionMode = "puppeteer" THEN "pCleanup" ELSE "rtFinally"

\* Where control goes when initialize() / execute() has ended with res:
\* PuppeteerComputerUse.execute runs its finally (cleanup) first; in container
\* mode a throw reaches runTest's catch and a return its finally.
UnwindTo(res) ==
    IF executionMode = "puppeteer" THEN "pCleanup"
    ELSE IF res.kind = "throw" THEN "rtCatch" ELSE "rtFinally"

\* DockerManager.initialize: "createFails" raises before this.container is
\* set, "startFails" after it.
DockerInitialize(r, how) ==
    /\ executionMode = "docker"
    /\ rpc[r] = "init"
    /\ ~hung[r]
    /\ container' = [container EXCEPT ![r] = IF how = "createFails" THEN "null" ELSE "live"]
    /\ created' = [created EXCEPT ![r] = how # "createFails"]
    /\ computerUse' = [computerUse EXCEPT ![r] = how = "ok"]
    /\ IF how = "ok"
       THEN /\ rpc' = [rpc EXCEPT ![r] = "navigate"]
            /\ UNCHANGED execResult
       ELSE /\ rpc' = [rpc EXCEPT ![r] = "rtCatch"]
            /\ execResult' = [execResult EXCEPT ![r] =
                                Throw("Failed to initialize Docker container", 0)]
    /\ UNCHANGED << handlerVars, hung, browser, cleanupCalls, navigatedTo, iteration,
                    exchanges, messages, pending, lastDispatch, screenshots, outcome >>

\* Mutant of PuppeteerInitialize: initializeBrowser is called before the
\* try of execute(), so its raise reaches runTest's catch past the finally.
PuppeteerInitialize_OutsideTry(r, how) ==
    /\ executionMode = "puppeteer"
    /\ rpc[r] = "init"
    /\ ~hung[r]
    /\ browser' = [browser EXCEPT ![r] =
                      CASE how = "launchFails" -> "null"
                        [] how = "pageFails" -> "noPage"
                        [] OTHER -> "open"]
    /\ created' = [created EXCEPT ![r] = how # "launchFails"]
    /\ IF how = "ok"
       THEN /\ rpc' = [rpc EXCEPT ![r] = "navigate"]
            /\ UNCHANGED execResult
       ELSE /\ rpc' = [rpc EXCEPT ![r] = "rtCatch"]
            /\ execResult' = [execResult EXCEPT ![r] =
                                Throw("Failed to initialize browser", 0)]
    /\ UNCHANGED << handlerVars, hung, container, computerUse, cleanupCalls, navigatedTo,
                    iteration, exchanges, messages, pending, lastDispatch, screenshots,
                    outcome >>

\* PuppeteerComputerUse.initializeBrowser: "launchFails" raises before
\* this.browser is set, "pageFails" after it (newPage or setViewport raises).
PuppeteerInitialize(r, how) ==
    /\ executionMode = "puppeteer"
    /\ rpc[r] = "init"
    /\ ~hung[r]
    /\ browser' = [browser EXCEPT ![r] =
                      CASE how = "launchFails" -> "null"
                        [] how = "pageFails" -> "noPage"
                        [] OTHER -> "open"]
    /\ created' = [created EXCEPT ![r] = how # "launchFails"]
    /\ IF how = "ok"
       THEN /\ rpc' = [rpc EXCEPT ![r] = "navigate"]
            /\ UNCHANGED execResult
       ELSE /\ rpc' = [rpc EXCEPT ![r] = "pCleanup"]
            /\ execResult' = [execResult EXCEPT ![r] =
                                Throw("Failed to initialize browser", 0)]
    /\ UNCHANGED << handlerVars, hung, container, computerUse, cleanupCalls, navigatedTo,
                    iteration, exchanges, messages, pending, lastDispatch, screenshots,
                    outcome >>

BackendUsable(r) ==
    IF executionMode = "docker" THEN container[r] = "live" ELSE browser[r] = "open"

\* The trail after the part of execute() that precedes the loop, navigation
\* having succeeded.  Container: 'Initial state', navigate, 'Navigated to'.
\* Process: navigate, 'Navigated to', 'Initial state'.
TrailAfterNavigation(mode, trail, ts, shotOk) ==
    IF mode = "docker"
    THEN CaptureScreenshot(CaptureScreenshot(trail, ts, TRUE, shotOk, "Initial state"),
                           ts, TRUE, shotOk, "Navigated to")
    ELSE CaptureScreenshot(CaptureScreenshot(trail, ts, TRUE, shotOk, "Navigated to"),
                           ts, TRUE, shotOk, "Initial state")

\* execute() up to the start of the loop: the captures and navigateToWebsite.
\* shotOk: the captures of this step succeed.
ExecuteNavigate(r, navOk, shotOk) ==
    /\ rpc[r] = "navigate"
    /\ ~hung[r]
    /\ navigatedTo' = [navigatedTo EXCEPT ![r] = {SiteOf(testOptions[r])}]
    /\ IF navOk
       THEN /\ screenshots' = [screenshots EXCEPT ![r] =
                  TrailAfterNavigation(executionMode, screenshots[r],
                                       testOptions[r]["takeScreenshots"], shotOk)]
            /\ messages' = [messages EXCEPT ![r] = <<InstructionTurn>>]
            /\ rpc' = [rpc EXCEPT ![r] = "loopHead"]
            /\ UNCHANGED execResult
       ELSE /\ screenshots' = [screenshots EXCEPT ![r] =
                  IF executionMode = "docker"
                  THEN CaptureScreenshot(screenshots[r], testOptions[r]["takeScreenshots"],
                                         TRUE, shotOk, "Initial state")
                  ELSE screenshots[r]]
            /\ execResult' = [execResult EXCEPT ![r] =
                                Throw("Failed to navigate to website", 0)]
            /\ rpc' = [rpc EXCEPT ![r] = UnwindTo(Throw("", 0))]
            /\ UNCHANGED messages
    /\ UNCHANGED << handlerVars, hung, container, browser, computerUse, created,
                    cleanupCalls, iteration, exchanges, pending, lastDispatch, outcome >>

\* The loop test and, inside the loop, the iteration's screenshot and the
\* request to the agent; or the code after the loop when the test fails.
LoopHead(r, shotOk) ==
    /\ rpc[r] = "loopHead"
    /\ ~hung[r]
    /\ lastDispatch' = [lastDispatch EXCEPT ![r] = NoDispatch]
    /\ IF LoopContinues(iteration[r])
       THEN /\ iteration' = [iteration EXCEPT ![r] = @ + 1]
            /\ IF shotOk
               THEN /\ exchanges' = [exchanges EXCEPT ![r] = @ + 1]
                    /\ rpc' = [rpc EXCEPT ![r] = "awaitAgent"]
                    /\ UNCHANGED execResult
               ELSE /\ execResult' = [execResult EXCEPT ![r] =
                          Throw("Failed to take screenshot", iteration[r] + 1)]
                    /\ rpc' = [rpc EXCEPT ![r] = UnwindTo(Throw("", 0))]
                    /\ UNCHANGED exchanges
       ELSE /\ execResult' = [execResult EXCEPT ![r] = AfterLoop(iteration[r])]
            /\ rpc' = [rpc EXCEPT ![r] = UnwindTo(AfterLoop(iteration[r]))]
            /\ UNCHANGED << iteration, exchanges >>
    /\ UNCHANGED << handlerVars, hung, container, browser, computerUse, created,
                    cleanupCalls, navigatedTo, messages, pending, screenshots, outcome >>

\* anthropic.messages.create raises.
AgentFails(r) ==
    /\ rpc[r] = "awaitAgent"
    /\ ~hung[r]
    /\ execResult' = [execResult EXCEPT ![r] = Throw("API error", iteration[r])]
    /\ rpc' = [rpc EXCEPT ![r] = UnwindTo(Throw("", 0))]
    /\ UNCHANGED << handlerVars, hung, container, browser, computerUse, created,
                    cleanupCalls, navigatedTo, iteration, exchanges, messages, pending,
                    lastDispatch, screenshots, outcome >>

\* Mutant of AgentResponds: a response without a tool_use block is answered
\* by sending the request again, without a new iteration or screenshot.
AgentResponds_Resends(r, content) ==
    /\ rpc[r] = "awaitAgent"
    /\ ~hung[r]
    /\ IF IsToolUse(FirstToolUse(content))
       THEN /\ pending' = [pending EXCEPT ![r] = content]
            /\ rpc' = [rpc EXCEPT ![r] = "tool"]
            /\ UNCHANGED exchanges
       ELSE /\ exchanges' = [exchanges EXCEPT ![r] = @ + 1]
            /\ UNCHANGED << pending, rpc >>
    /\ UNCHANGED << handlerVars, hung, container, browser, computerUse, created,
                    cleanupCalls, navigatedTo, iteration, messages, execResult,
                    lastDispatch, screenshots, outcome >>

\* The agent's response arrives: with a tool_use block the loop goes on to
\* dispatch it; without one it breaks out and runs the code after the loop.
AgentResponds(r, content) ==
    /\ rpc[r] = "awaitAgent"
    /\ ~hung[r]
    /\ IF IsToolUse(FirstToolUse(content))
       THEN /\ pending' = [pending EXCEPT ![r] = content]
            /\ rpc' = [rpc EXCEPT ![r] = "tool"]
            /\ UNCHANGED execResult
       ELSE /\ execResult' = [execResult EXCEPT ![r] = AfterLoop(iteration[r])]
            /\ rpc' = [rpc EXCEPT ![r] = UnwindTo(AfterLoop(iteration[r]))]
            /\ UNCHANGED pending
    /\ UNCHANGED << handlerVars, hung, container, browser, computerUse, created,
                    cleanupCalls, navigatedTo, iteration, exchanges, messages,
                    lastDispatch, screenshots, outcome >>

\* The two turns pushed after a dispatch.
PushTurns(msgs, content, toolUse) ==
    msgs \o << AssistantTurn(content), ToolResultTurn(toolUse) >>

\* executeComputerUseTool on the first tool_use block, the two pushes and the
\* inter-iteration delay (delayed: the 1000 ms wait at the end of the
\* iteration was reached).  A raise of executeComputerUseTool would leave the
\* loop through the iteration's catch.
ExecuteTool(r, env) ==
    LET toolUse == FirstToolUse(pending[r])
        res == ExecuteComputerUseTool(executionMode, toolUse,
                                      testOptions[r]["takeScreenshots"], env)
    IN  /\ rpc[r] = "tool"
        /\ ~hung[r]
        /\ lastDispatch' = [lastDispatch EXCEPT ![r] =
              [use |-> toolUse, result |-> res, delayed |-> ~res.raised]]
        /\ pending' = [pending EXCEPT ![r] = <<>>]
        /\ IF res.raised
           THEN /\ execResult' = [execResult EXCEPT ![r] = Throw(res.text, iteration[r])]
                /\ rpc' = [rpc EXCEPT ![r] = UnwindTo(Throw("", 0))]
                /\ UNCHANGED << messages, screenshots >>
           ELSE /\ messages' = [messages EXCEPT ![r] = PushTurns(@, pending[r], toolUse)]
                /\ screenshots' = [screenshots EXCEPT ![r] =
                      IF res.shot THEN Append(@, "Screenshot taken") ELSE @]
                /\ rpc' = [rpc EXCEPT ![r] = "loopHead"]
                /\ UNCHANGED execResult
        /\ UNCHANGED << handlerVars, hung, container, browser, computerUse, created,
                        cleanupCalls, navigatedTo, iteration, exchanges, outcome >>

\* ------------------------------------------------------------------------
\* Teardown of the two backends
\* ------------------------------------------------------------------------

Attempt(ok) == IF ok THEN "ok" ELSE "failed"

\* Mutant of Cleanup: a failed stop is rethrown, so remove is skipped.
Cleanup_StopAborts(m, stopOk, removeOk) ==
    IF m.container = "null"
    THEN [m EXCEPT !.cleanups = @ + 1,
                   !.last = Op("cleanup", "returned", FALSE, "none", "none")]
    ELSE IF ~stopOk
    THEN [m EXCEPT !.cleanups = @ + 1, !.container = "null",
                   !.last = Op("cleanup", "raised: stop failed", TRUE, "failed", "none")]
    ELSE [m EXCEPT !.cleanups = @ + 1, !.container = "null",
                   !.last = Op("cleanup", "returned", TRUE, "ok", Attempt(removeOk))]

\* The manager after cleanup(): nothing without a container; otherwise stop
\* and remove are each tried in their own try/catch and the finally nulls
\* this.container.
Cleanup(m, stopOk, removeOk) ==
    IF m.container = "null"
    THEN [m EXCEPT !.cleanups = @ + 1,
                   !.last = Op("cleanup", "returned", FALSE, "none", "none")]
    ELSE [m EXCEPT !.cleanups = @ + 1, !.container = "null",
                   !.last = Op("cleanup", "returned", TRUE, Attempt(stopOk),
                               Attempt(removeOk))]

\* Mutant of ProcessCleanup: a failed close() is rethrown.
ProcessCleanup_Raises(p, closeOk) ==
    IF p.browser = "null"
    THEN [p EXCEPT !.cleanups = @ + 1,
                   !.last = Op("cleanup", "returned", FALSE, "none", "none")]
    ELSE [p EXCEPT !.cleanups = @ + 1,
                   !.browser = IF closeOk THEN "null" ELSE @,
                   !.last = Op("cleanup",
                               IF closeOk THEN "returned" ELSE "raised: close failed",
                               TRUE, Attempt(closeOk), "none")]

\* The object after cleanup(): close() is called when this.browser is set,
\* and browser and page are nulled only after close() resolved.  The stop
\* field records the close.
ProcessCleanup(p, closeOk) ==
    IF p.browser = "null"
    THEN [p EXCEPT !.cleanups = @ + 1,
                   !.last = Op("cleanup", "returned", FALSE, "none", "none")]
    ELSE [p EXCEPT !.cleanups = @ + 1,
                   !.browser = IF closeOk THEN "null" ELSE @,
                   !.last = Op("cleanup", "returned", TRUE, Attempt(closeOk), "none")]

\* A finally block whose cleanup call ended as cleanupResult: a raise in the
\* finally replaces the result of the try, a return leaves it.
ExecuteFinally(res, cleanupResult) ==
    IF cleanupResult = "returned" THEN res ELSE Throw(cleanupResult, res.iterations)

\* runTest's success object.
SuccessOf(res, trail) ==
    [kind |-> "success", message |-> "", screenshots |-> trail,
     iterations |-> res.iterations]

\* PuppeteerComputerUse.cleanup, from execute's finally; then execute's
\* return reaches runTest's return, its throw runTest's catch.  execResult
\* keeps what the try block of execute produced.
PuppeteerCleanup(r, closeOk) ==
    LET after == ProcessCleanup([NewProcess EXCEPT !.browser = browser[r]], closeOk)
        res == ExecuteFinally(execResult[r], after.last.result)
    IN  /\ rpc[r] = "pCleanup"
        /\ ~hung[r]
        /\ cleanupCalls' = [cleanupCalls EXCEPT ![r] = @ + 1]
        /\ browser' = [browser EXCEPT ![r] = after.browser]
        /\ IF res.kind = "return"
           THEN /\ outcome' = [outcome EXCEPT ![r] = SuccessOf(res, screenshots[r])]
                /\ rpc' = [rpc EXCEPT ![r] = "done"]
           ELSE /\ rpc' = [rpc EXCEPT ![r] = "rtCatch"]
                /\ UNCHANGED outcome
        /\ UNCHANGED << handlerVars, hung, container, computerUse, created, navigatedTo,
                        iteration, exchanges, messages, pending, lastDispatch,
                        screenshots, execResult >>

\* runTest's catch: the 'Error state' capture and the failure object thrown.
RunTestCatch(r, shotOk) ==
    LET trail == CaptureScreenshot(screenshots[r], testOptions[r]["takeScreenshots"],
                                   computerUse[r] /\ BackendUsable(r), shotOk,
                                   "Error state")
    IN  /\ rpc[r] = "rtCatch"
        /\ ~hung[r]
        /\ screenshots' = [screenshots EXCEPT ![r] = trail]
        /\ outcome' = [outcome EXCEPT ![r] =
              [kind |-> "failure", message |-> execResult[r].msg,
               screenshots |-> IF trail # screenshots[r] THEN <<"Error state">> ELSE <<>>,
               iterations |-> execResult[r].iterations]]
        /\ rpc' = [rpc EXCEPT ![r] = IF container[r] # "none" THEN "rtFinally" ELSE "done"]
        /\ UNCHANGED << handlerVars, hung, container, browser, computerUse, created,
                        cleanupCalls, navigatedTo, iteration, exchanges, messages,
                        pending, lastDispatch, execResult >>

\* runTest's finally in container mode: DockerManager.cleanup inside a
\* try/catch that logs, so the value returned or thrown by runTest stands
\* however the cleanup ended.
DockerCleanup(r, stopOk, removeOk) ==
    LET after == Cleanup([NewManager EXCEPT !.container = container[r]], stopOk, removeOk)
    IN  /\ rpc[r] = "rtFinally"
        /\ ~hung[r]
        /\ cleanupCalls' = [cleanupCalls EXCEPT ![r] = @ + 1]
        /\ container' = [container EXCEPT ![r] = after.container]
        /\ outcome' = [outcome EXCEPT ![r] =
              IF execResult[r].kind = "return"
              THEN SuccessOf(execResult[r], screenshots[r])
              ELSE @]
        /\ rpc' = [rpc EXCEPT ![r] = "done"]
        /\ UNCHANGED << handlerVars, hung, browser, computerUse, created, navigatedTo,
                        iteration, exchanges, messages, pending, lastDispatch,
                        screenshots, execResult >>

\* ------------------------------------------------------------------------
\* The remote agent
\* ------------------------------------------------------------------------

\* A response that ends the task: narration only.
Completion == <<TextBlock>>

\* A response asking for one tool invocation.
OneTool(e, i) == <<TextBlock, ToolUse(BlockId(e, 1), i[1], i[2], i[3])>>

\* A response asking for two tool invocations at once.
TwoTools(e) ==
    <<TextBlock, ToolUse(BlockId(e, 1), "computer", "click", "ok"),
      ToolUse(BlockId(e, 2), "computer", "key", "ok")>>

MultiCount(msgs) == Cardinality({i \in 1..Len(msgs) : Len(msgs[i].uses) > 1})

AgentCompletes(r) == AgentResponds(r, Completion)

AgentAsks(r, i) ==
    /\ i[2] = "screenshot" => Len(screenshots[r]) < MaxTrail
    /\ AgentResponds(r, OneTool(exchanges[r], i))

AgentAsksTwo(r) ==
    /\ MultiCount(messages[r]) < MaxMultiBlock
    /\ AgentResponds(r, TwoTools(exchanges[r]))

\* ------------------------------------------------------------------------
\* Specifications
\* ------------------------------------------------------------------------

\* What the environment may answer: anything, or success only.
Outcomes(faults) == IF faults THEN BOOLEAN ELSE {TRUE}

InitOutcomes(faults) ==
    IF faults THEN {"ok", "createFails", "startFails", "launchFails", "pageFails"}
    ELSE {"ok"}

\* The steps of one run that do not depend on who the agent is; faults: the
\* daemon, the browser and the captures may fail.
RunStep(r, faults) ==
    \/ \E how \in InitOutcomes(faults) \ {"launchFails", "pageFails"} :
          DockerInitialize(r, how)
    \/ \E how \in InitOutcomes(faults) \ {"createFails", "startFails"} :
          PuppeteerInitialize(r, how)
    \/ \E navOk, shotOk \in Outcomes(faults) : ExecuteNavigate(r, navOk, shotOk)
    \/ \E shotOk \in Outcomes(faults) : LoopHead(r, shotOk)
    \/ AgentFails(r)
    \/ AgentCompletes(r)
    \/ \E ok, shot \in Outcomes(faults) : ExecuteTool(r, [ok |-> ok, shot |-> shot])
    \/ \E closeOk \in Outcomes(faults) : PuppeteerCleanup(r, closeOk)
    \/ \E shotOk \in Outcomes(faults) : RunTestCatch(r, shotOk)
    \/ \E stopOk, removeOk \in Outcomes(faults) : DockerCleanup(r, stopOk, removeOk)

\* One request at a time, any agent, no timer: the run and its loop.
Next ==
    \/ \E o \in PlainOptions : HandlerAdmit(1, o)
    \/ HandlerReturn(1)
    \/ RunStep(1, TRUE)
    \/ \E i \in ToolInputs : AgentAsks(1, i)
    \/ AgentAsksTwo(1)

Spec == Init /\ [][Next]_vars

\* One request at a time, any client options, the timer, calls that hang;
\* the agent clicks or stops.
NextHandler ==
    \/ \E o \in ClientOptions : HandlerAdmit(1, o)
    \/ HandlerReturn(1)
    \/ TimeoutFires(1)
    \/ Hang(1)
    \/ RunStep(1, TRUE)
    \/ \E i \in StubInputs : AgentAsks(1, i)

SpecHandler == Init /\ [][NextHandler]_vars

\* Two slots, so that a request can arrive while an abandoned run is still
\* executing; default options, the agent clicks or stops.
NextGate ==
    \E r \in Runs :
        \/ HandlerAdmit(r, NoOptions)
        \/ HandlerReturn(r)
        \/ TimeoutFires(r)
        \/ RunStep(r, FALSE)
        \/ \E i \in StubInputs : AgentAsks(r, i)

SpecGate == Init /\ [][NextGate]_vars

\* One slot, default options, the front door with every kind of request, the
\* timer, a failing environment; the agent clicks or stops.
NextDoor ==
    \/ HandlerAdmit(1, NoOptions)
    \/ \E req \in Requests : HandlerReject(1, req)
    \/ HandlerReturn(1)
    \/ TimeoutFires(1)
    \/ RunStep(1, TRUE)
    \/ \E i \in StubInputs : AgentAsks(1, i)

SpecDoor == Init /\ [][NextDoor]_vars

\* ------------------------------------------------------------------------
\* DockerManager.initialize and setupContainerEnvironment
\* ------------------------------------------------------------------------

managerRest == << executionMode, apiKey, door, pm, wire, scroll, scan, rl, eh, activeTests, hpc, response,
                  testOptions, deadline, runVars >>

\* docker.pull: its failure is logged and ignored.
DmPull(ok) ==
    /\ dm.pc = "new"
    /\ dm' = [dm EXCEPT !.pc = "pulled",
                        !.last = Op("initialize", "", FALSE, "none", "none")]
    /\ UNCHANGED << call, managerRest >>

\* catch of initialize
InitializeRaises(m) ==
    [m EXCEPT !.pc = "failed", !.error = "Failed to initialize Docker container"]

\* docker.createContainer: this.container is assigned only when it resolves.
DmCreate(ok) ==
    /\ dm.pc = "pulled"
    /\ dm' = IF ok THEN [dm EXCEPT !.pc = "created", !.container = "live"]
             ELSE InitializeRaises(dm)
    /\ UNCHANGED << call, managerRest >>

\* container.start
DmStart(ok) ==
    /\ dm.pc = "created"
    /\ dm' = IF ok THEN [dm EXCEPT !.pc = "setup", !.step = 1]
             ELSE InitializeRaises(dm)
    /\ UNCHANGED << call, managerRest >>

\* The manager after setup command number m.step, which succeeded (ok) or
\* whose execute raised: the catch of the loop body logs and continues.
AfterSetupCommand(m, ok) ==
    [m EXCEPT !.attempted = m.step,
              !.earlyFailed = @ \/ (~ok /\ m.step < SetupSteps),
              !.readyFailed = @ \/ (~ok /\ m.step = SetupSteps),
              !.step = m.step + 1,
              !.pc = IF m.step + 1 > SetupSteps THEN "ready" ELSE "setup"]

\* One pass of the for loop of setupContainerEnvironment; after the last
\* command initialize() returns.
DmSetupStep(ok) ==
    /\ dm.pc = "setup"
    /\ dm' = AfterSetupCommand(dm, ok)
    /\ UNCHANGED << call, managerRest >>

\* ------------------------------------------------------------------------
\* DockerManager.cleanup and the other methods
\* ------------------------------------------------------------------------

\* initialize() is not running on the manager.
ManagerIdle == dm.pc \in {"new", "ready", "failed"}

DmCleanup(stopOk, removeOk) ==
    /\ ManagerIdle
    /\ dm.cleanups < MaxCleanups
    /\ dm' = Cleanup(dm, stopOk, removeOk)
    /\ UNCHANGED << call, managerRest >>

\* How getFile, putFile and isRunning can go once past their guard.
FileOutcomes == {"ok", "apiFails", "streamFails"}

\* getFile(containerPath): the guard, then getArchive inside the try; the
\* promise it returns is not awaited inside the try, so a stream or execute
\* failure rejects with its own message.
GetFile(m, how) ==
    IF m.container = "null"
    THEN Op("getFile", "raised: Container not initialized", FALSE, "none", "none")
    ELSE Op("getFile",
            CASE how = "ok" -> "base64"
              [] how = "apiFails" -> "raised: Failed to get file"
              [] OTHER -> "raised: stream",
            TRUE, "none", "none")

\* putFile(localPath, containerPath): the guard, then readFileSync and
\* putArchive inside the try.
PutFile(m, how) ==
    IF m.container = "null"
    THEN Op("putFile", "raised: Container not initialized", FALSE, "none", "none")
    ELSE Op("putFile",
            IF how = "ok" THEN "undefined" ELSE "raised: Failed to copy file to container",
            TRUE, "none", "none")

\* isRunning(): false without a container or when inspect fails.
IsRunning(m, how) ==
    IF m.container = "null"
    THEN Op("isRunning", "false", FALSE, "none", "none")
    ELSE Op("isRunning", IF how = "ok" THEN "State.Running" ELSE "false",
            TRUE, "none", "none")

DmOperation(op, how) ==
    /\ ManagerIdle
    /\ dm' = [dm EXCEPT !.last = CASE op = "getFile" -> GetFile(dm, how)
                                    [] op = "putFile" -> PutFile(dm, how)
                                    [] OTHER -> IsRunning(dm, how)]
    /\ UNCHANGED << call, managerRest >>

\* ------------------------------------------------------------------------
\* PuppeteerComputerUse taken on its own
\* ------------------------------------------------------------------------

processRest == << executionMode, apiKey, door, dm, call, wire, scroll, scan, rl, eh, activeTests, hpc,
                 response, testOptions, deadline, runVars >>

\* initializeBrowser(), called once on a new object.
PmInitialize(how) ==
    /\ pm.last.op = "none"
    /\ pm' = [pm EXCEPT !.browser = CASE how = "launchFails" -> "null"
                                       [] how = "pageFails" -> "noPage"
                                       [] OTHER -> "open",
                        !.last = Op("initializeBrowser",
                                    IF how = "ok" THEN "returned"
                                    ELSE "raised: Failed to initialize browser",
                                    how # "launchFails", "none", "none")]
    /\ UNCHANGED processRest

PmCleanup(closeOk) ==
    /\ pm.cleanups < MaxCleanups
    /\ pm' = ProcessCleanup(pm, closeOk)
    /\ UNCHANGED processRest

\* captureScreenshot(step) with takeScreenshots on: null unless page and
\* browser are both set; a failed capture is caught and gives null.
ProcessCapture(p, ok) ==
    IF p.browser # "open"
    THEN Op("captureScreenshot", "null", FALSE, "none", "none")
    ELSE Op("captureScreenshot", IF ok THEN "screenshot" ELSE "null",
            TRUE, "none", "none")

PmCapture(ok) ==
    /\ pm' = [pm EXCEPT !.last = ProcessCapture(pm, ok)]
    /\ UNCHANGED processRest

\* ------------------------------------------------------------------------
\* DockerManager.execute
\* ------------------------------------------------------------------------

Settled(c, how) == [c EXCEPT !.pc = "settled", !.result = how]

CallPending == call.pc \in {"execCreate", "execStart", "streaming", "inspecting"}

\* The timer of the call is due.
TimerDue(c) == \E t \in c.armedAt : c.elapsed >= t + ExecTimeout

\* execute(command) is called: without a container it raises at once.
DmExecute ==
    /\ ManagerIdle
    /\ call.pc \in {"idle", "settled"}
    /\ call' = IF dm.container = "null"
               THEN Settled(NoCall, "Container not initialized")
               ELSE [NoCall EXCEPT !.pc = "execCreate"]
    /\ UNCHANGED << dm, managerRest >>

\* await this.container.exec(...) settles.
ExecCreated(ok) ==
    /\ call.pc = "execCreate"
    /\ call' = IF ok THEN [call EXCEPT !.pc = "execStart"]
               ELSE Settled(call, "Failed to execute command")
    /\ UNCHANGED << dm, managerRest >>

\* await exec.start(...) settles: the promise is built, the stream handlers
\* are attached and the 30 s timer is set.
ExecStarted(ok) ==
    /\ call.pc = "execStart"
    /\ call' = IF ok THEN [call EXCEPT !.pc = "streaming", !.armedAt = {call.elapsed}]
               ELSE Settled(call, "Failed to execute command")
    /\ UNCHANGED << dm, managerRest >>

\* stream 'end': exec.inspect() is awaited.
StreamEnds ==
    /\ call.pc = "streaming"
    /\ call' = [call EXCEPT !.pc = "inspecting"]
    /\ UNCHANGED << dm, managerRest >>

\* stream 'error'
StreamError ==
    /\ call.pc = "streaming"
    /\ call' = Settled(call, "stream error")
    /\ UNCHANGED << dm, managerRest >>

\* exec.inspect() settles: exit code 0, another exit code, or inspect raised.
Inspected(how) ==
    /\ call.pc = "inspecting"
    /\ call' = Settled(call, CASE how = "zero" -> "output"
                               [] how = "nonzero" -> "Command failed with exit code"
                               [] OTHER -> "inspect error")
    /\ UNCHANGED << dm, managerRest >>

\* The timer's callback: reject(new Error('Command execution timeout')).
ExecTimerFires ==
    /\ call.pc \in {"streaming", "inspecting"}
    /\ TimerDue(call)
    /\ call' = Settled(call, "Command execution timeout")
    /\ UNCHANGED << dm, managerRest >>

\* Time passes while the call is pending; a due timer fires first.
Tick ==
    /\ CallPending
    /\ ~TimerDue(call)
    /\ call.elapsed < MaxElapsed
    /\ call' = [call EXCEPT !.elapsed = @ + TickSeconds]
    /\ UNCHANGED << dm, managerRest >>

\* ------------------------------------------------------------------------
\* DockerManager.execute: the stream handlers
\* ------------------------------------------------------------------------

wireRest == << executionMode, apiKey, door, dm, pm, call, scroll, scan, rl, eh, activeTests, hpc, response,
              testOptions, deadline, runVars >>

\* exec.start resolved with a stream for a command that writes frames.
WireOpens(frames) ==
    /\ wire.pc \in {"none", "resolved"}
    /\ wire' = [NoWire EXCEPT !.pc = "open", !.frames = frames,
                              !.rest = WireBytes(frames)]
    /\ UNCHANGED wireRest

\* The first n undelivered bytes are exactly the next whole frame.
IsNextFrame(w, n) ==
    \E k \in 1..Len(w.frames) :
        /\ WireBytes(SubSeq(w.frames, k, Len(w.frames))) = w.rest
        /\ n = Len(FrameBytes(w.frames[k]))

\* A 'data' event with the next n bytes of the stream; the last chunk the
\* bound allows takes all that is left.
WireData(n) ==
    /\ wire.pc = "open"
    /\ n \in 1..Len(wire.rest)
    /\ wire.chunks < MaxChunks
    /\ (wire.chunks = MaxChunks - 1) => n = Len(wire.rest)
    /\ wire' = [OnData(wire, SubSeq(wire.rest, 1, n)) EXCEPT
                    !.rest = SubSeq(wire.rest, n + 1, Len(wire.rest)),
                    !.chunks = @ + 1,
                    !.aligned = @ /\ IsNextFrame(wire, n)]
    /\ UNCHANGED wireRest

\* The 'end' event, exec.inspect() reporting exit code 0: resolve(output.trim()).
WireEndsZero ==
    /\ wire.pc = "open"
    /\ wire.rest = <<>>
    /\ wire' = [wire EXCEPT !.pc = "resolved", !.returned = Trim(wire.output)]
    /\ UNCHANGED wireRest

NextWire ==
    \/ \E frames \in FrameSeqs : WireOpens(frames)
    \/ \E n \in 1..(MaxFrames * (HeaderLen + MaxPayload)) : WireData(n)
    \/ WireEndsZero

SpecWire == Init /\ [][NextWire]_vars

\* ------------------------------------------------------------------------
\* The scroll action of the two adapters
\* ------------------------------------------------------------------------

\* The largest clicks value an invocation carries.
MaxClicks == 3

\* deltaY of one wheel notch in the process adapter
WheelDelta == 120

\* clicks = 3, the default of the process adapter's destructuring
DefaultClicks == 3

\* xdotool buttons: 4 wheel up, 5 wheel down
WheelUp == 4

WheelDown == 5

Points == {<<0, 0>>, <<640, 360>>, <<1279, 719>>}

Directions == {"down", "up", "left"}

\* input.clicks: absent (undefined) or a number
ClicksChoices ==
    {[given |-> FALSE, n |-> 0]} \cup {[given |-> TRUE, n |-> k] : k \in 1..MaxClicks}

ScrollInputs == [coordinate : Points, direction : Directions, clicks : ClicksChoices]

\* case 'scroll' of ComputerUse.handleComputerAction: the xdotool command,
\* one click of button 5 or 4 at the point; clicks is destructured and unused.
DockerScroll(input) ==
    [mousemove |-> input.coordinate,
     button |-> IF input.direction = "down" THEN WheelDown ELSE WheelUp,
     presses |-> 1]

\* case 'scroll' of PuppeteerComputerUse.handleComputerAction: mouse.move to
\* the point, then mouse.wheel({deltaY: delta * clicks}).
PuppeteerScroll(input) ==
    LET clicks == IF input.clicks.given THEN input.clicks.n ELSE DefaultClicks
        delta == IF input.direction = "down" THEN WheelDelta ELSE -WheelDelta
    IN  [move |-> input.coordinate, deltaY |-> delta * clicks]

\* The signed number of wheel notches each command scrolls by, down positive.
DockerNotches(cmd) == IF cmd.button = WheelDown THEN cmd.presses ELSE -cmd.presses

ProcessNotches(cmd) == cmd.deltaY \div WheelDelta

scrollRest == << executionMode, apiKey, door, dm, pm, call, wire, scan, rl, eh, activeTests, hpc,
                response, testOptions, deadline, runVars >>

\* The agent asks for a scroll.
ScrollAsked(input) ==
    /\ scroll.pc = "none"
    /\ scroll' = [NoScroll EXCEPT !.pc = "asked", !.input = input]
    /\ UNCHANGED scrollRest

\* The container adapter carries it out.
ContainerScrolls ==
    /\ scroll.pc = "asked"
    /\ scroll.docker = <<>>
    /\ scroll' = [scroll EXCEPT !.docker = DockerScroll(scroll.input)]
    /\ UNCHANGED scrollRest

\* The process adapter carries it out.
ProcessScrolls ==
    /\ scroll.pc = "asked"
    /\ scroll.process = <<>>
    /\ scroll' = [scroll EXCEPT !.process = PuppeteerScroll(scroll.input)]
    /\ UNCHANGED scrollRest

NextScroll ==
    \/ \E input \in ScrollInputs : ScrollAsked(input)
    \/ ContainerScrolls
    \/ ProcessScrolls

SpecScroll == Init /\ [][NextScroll]_vars

\* ------------------------------------------------------------------------
\* cleanupOrphanedContainers
\* ------------------------------------------------------------------------

\* How many containers the daemon lists.
MaxContainers == 2

\* `computer-use-test-`, of containerName and of the filter
RunPrefix == "computer-use-test-"

\* Container names as the daemon reports them, cut into parts: a run's
\* container, a container whose name holds the prefix further in, and one
\* that has nothing to do with the program.
RunName == <<"/", RunPrefix, "testId">>

LookalikeName == <<"/", "my-", RunPrefix, "db">>

ForeignName == <<"/", "nginx">>

\* A listed container: its names, and whether the run that owns it is still
\* executing (in this process or in another one).
ContainerInfos == [Names : {<<RunName>>, <<LookalikeName>>, <<ForeignName>>}, live : BOOLEAN]

Daemons == [1..MaxContainers -> ContainerInfos]

\* name.includes(part)
Includes(name, part) == \E i \in 1..Len(name) : name[i] = part

\* container.Names.some(name => name.includes('computer-use-test-'))
IsTestContainer(info) ==
    \E k \in 1..Len(info.Names) : Includes(info.Names[k], RunPrefix)

\* containers.filter(...), as the ids in listing order
TestContainers(daemon) ==
    LET Matches(i) == IsTestContainer(daemon[i])
    IN  SelectSeq([i \in 1..Len(daemon) |-> i], Matches)

\* After listContainers settled: the outer catch logs its failure.
AfterList(sc, ok) ==
    IF ~ok THEN [sc EXCEPT !.pc = "done"]
    ELSE LET queue == TestContainers(sc.daemon)
         IN  [sc EXCEPT !.listed = TRUE, !.queue = queue,
                        !.pc = IF queue = <<>> THEN "done" ELSE "removing"]

\* Mutant of AfterRemove: a failed remove leaves the loop and rejects.
AfterRemove_Aborts(sc, ok) ==
    IF ok
    THEN [sc EXCEPT !.attempted = @ \cup {Head(sc.queue)},
                    !.removed = @ \cup {Head(sc.queue)},
                    !.queue = Tail(@),
                    !.pc = IF Tail(sc.queue) = <<>> THEN "done" ELSE "removing"]
    ELSE [sc EXCEPT !.attempted = @ \cup {Head(sc.queue)}, !.queue = <<>>,
                    !.pc = "done", !.raised = TRUE]

\* One pass of the for loop: remove({force: true}) on the next test
\* container, its failure caught and logged inside the loop body.
AfterRemove(sc, ok) ==
    [sc EXCEPT !.attempted = @ \cup {Head(sc.queue)},
               !.removed = IF ok THEN @ \cup {Head(sc.queue)} ELSE @,
               !.queue = Tail(@),
               !.pc = IF Tail(sc.queue) = <<>> THEN "done" ELSE "removing"]

scanRest == << executionMode, apiKey, door, dm, pm, call, wire, scroll, rl, eh, activeTests, hpc,
              response, testOptions, deadline, runVars >>

\* The module is loaded while the daemon holds these containers.
ModuleLoads(daemon) ==
    /\ scan.pc = "none"
    /\ scan' = [NoScan EXCEPT !.pc = "listing", !.daemon = daemon]
    /\ UNCHANGED scanRest

ListSettles(ok) ==
    /\ scan.pc = "listing"
    /\ scan' = AfterList(scan, ok)
    /\ UNCHANGED scanRest

RemoveSettles(ok) ==
    /\ scan.pc = "removing"
    /\ scan' = AfterRemove(scan, ok)
    /\ UNCHANGED scanRest

NextScan ==
    \/ \E daemon \in Daemons : ModuleLoads(daemon)
    \/ \E ok \in BOOLEAN : ListSettles(ok)
    \/ \E ok \in BOOLEAN : RemoveSettles(ok)

SpecScan == Init /\ [][NextScan]_vars

\* ------------------------------------------------------------------------
\* RateLimiter
\* ------------------------------------------------------------------------

Verdict(L, ip, allowed, reason, remaining) ==
    [ip |-> ip, allowed |-> allowed, reason |-> reason,
     remaining |-> remaining, before |-> L.verdict.reason]

\* if (!this.requests.has(clientIP)) this.requests.set(clientIP, {...})
GetOrCreate(L, ip) ==
    IF L.requests[ip].present THEN L.requests[ip]
    ELSE [present |-> TRUE, count |-> 0, resetTime |-> L.now + HourMinutes,
          blocked |-> FALSE, blockUntil |-> 0]

\* Reset counter if window has expired
WindowReset(L, e) ==
    IF L.now > e.resetTime
    THEN [e EXCEPT !.count = 0, !.resetTime = L.now + HourMinutes,
                   !.blocked = FALSE, !.blockUntil = 0]
    ELSE e

\* Mutant of IsRequestAllowed: the concurrent tests limit is not checked.
IsRequestAllowed_NoConcurrency(L, ip) ==
    LET e0 == GetOrCreate(L, ip)
        e1 == WindowReset(L, e0)
    IN  IF e0.blocked /\ L.now < e0.blockUntil
        THEN [L EXCEPT !.requests[ip] = e0,
                       !.verdict = Verdict(L, ip, FALSE, "IP temporarily blocked", 0)]
        ELSE IF e1.count >= maxRequestsPerHour
        THEN [L EXCEPT !.requests[ip] =
                          [e1 EXCEPT !.blocked = TRUE,
                                     !.blockUntil = L.now + blockDurationMinutes],
                       !.verdict = Verdict(L, ip, FALSE, "Rate limit exceeded", 0)]
        ELSE [L EXCEPT !.requests[ip] = e1,
                       !.verdict = Verdict(L, ip, TRUE, "",
                                           maxRequestsPerHour - e1.count - 1)]

\* isRequestAllowed(clientIP): the limiter after the call, its result in verdict.
IsRequestAllowed(L, ip) ==
    LET e0 == GetOrCreate(L, ip)
        e1 == WindowReset(L, e0)
    IN  IF e0.blocked /\ L.now < e0.blockUntil
        THEN [L EXCEPT !.requests[ip] = e0,
                       !.verdict = Verdict(L, ip, FALSE, "IP temporarily blocked", 0)]
        ELSE IF e1.count >= maxRequestsPerHour
        THEN [L EXCEPT !.requests[ip] =
                          [e1 EXCEPT !.blocked = TRUE,
                                     !.blockUntil = L.now + blockDurationMinutes],
                       !.verdict = Verdict(L, ip, FALSE, "Rate limit exceeded", 0)]
        ELSE IF Cardinality(L.tests) >= maxConcurrentTests
        THEN [L EXCEPT !.requests[ip] = e1,
                       !.verdict = Verdict(L, ip, FALSE, "Too many concurrent tests",
                                           maxRequestsPerHour - e1.count)]
        ELSE [L EXCEPT !.requests[ip] = e1,
                       !.verdict = Verdict(L, ip, TRUE, "",
                                           maxRequestsPerHour - e1.count - 1)]

\* recordRequest(clientIP)
RecordRequest(L, ip) ==
    IF L.requests[ip].present THEN [L EXCEPT !.requests[ip].count = @ + 1] ELSE L

\* Mutant of CleanupEntry: the block is not looked at.
CleanupEntry_IgnoresBlock(L, e) == IF L.now > e.resetTime THEN NoEntry ELSE e

\* The body of the cleanup interval for one entry: entries past their reset
\* time and not blocked are deleted.
CleanupEntry(L, e) ==
    IF e.present /\ L.now > e.resetTime /\ (~e.blocked \/ L.now > e.blockUntil)
    THEN NoEntry ELSE e

limiterRest == << executionMode, apiKey, door, dm, pm, call, wire, scroll, scan, eh,
                 activeTests, hpc, response, testOptions, deadline, runVars >>

\* A caller checks an IP.
LimiterChecks(ip) ==
    /\ rl' = IsRequestAllowed(rl, ip)
    /\ UNCHANGED limiterRest

\* A caller records a request of an IP.
LimiterRecords(ip) ==
    /\ rl.requests[ip].count < MaxCount
    /\ rl' = RecordRequest(rl, ip)
    /\ UNCHANGED limiterRest

\* A caller checks an IP and records the request when it was allowed.
LimiterAdmits(ip) ==
    LET checked == IsRequestAllowed(rl, ip)
        recorded == RecordRequest(checked, ip)
    IN  /\ rl' = IF checked.verdict.allowed
                 THEN [recorded EXCEPT !.allowedAt[ip][rl.now] = @ + 1]
                 ELSE checked
        /\ UNCHANGED limiterRest

\* registerTest(testId)
RegisterTest(id) ==
    /\ id \notin rl.tests
    /\ rl' = [rl EXCEPT !.tests = @ \cup {id}]
    /\ UNCHANGED limiterRest

\* unregisterTest(testId)
UnregisterTest(id) ==
    /\ id \in rl.tests
    /\ rl' = [rl EXCEPT !.tests = @ \ {id}]
    /\ UNCHANGED limiterRest

\* The setInterval callback fires; its first firing is one period after
\* construction.
PeriodicCleanup ==
    /\ rl.now >= CleanupMinutes
    /\ rl' = [rl EXCEPT !.requests = [ip \in IPs |-> CleanupEntry(rl, rl.requests[ip])]]
    /\ UNCHANGED limiterRest

TimePasses ==
    /\ rl.now + TickMinutes <= MaxNow
    /\ rl' = [rl EXCEPT !.now = @ + TickMinutes]
    /\ UNCHANGED limiterRest

\* Every allowed request is recorded: the quota of one IP over time.
NextQuota ==
    \/ LimiterAdmits("a")
    \/ PeriodicCleanup
    \/ TimePasses

SpecQuota == Init /\ [][NextQuota]_vars

\* Any interleaving of the limiter's methods and of the cleanup interval; the
\* requests of one IP are recorded, the other IP is only checked.
NextLimiter ==
    \/ \E ip \in IPs : LimiterChecks(ip)
    \/ LimiterRecords("a")
    \/ \E id \in TestIds : RegisterTest(id)
    \/ \E id \in TestIds : UnregisterTest(id)
    \/ PeriodicCleanup
    \/ TimePasses

SpecLimiter == Init /\ [][NextLimiter]_vars

\* ------------------------------------------------------------------------
\* ErrorHandler.validateRequest
\* ------------------------------------------------------------------------

\* The longest instruction validateRequest accepts
MaxInstruction == 1000

\* The bounds of options.timeout
MinTimeout == 10

MaxTimeout == 600

\* JavaScript values as far as validateRequest tells them apart: kind is the
\* typeof (with "null" and "undefined" apart), num the value of a number or
\* the length of a string, whole whether a number is an integer, inner the
\* length of a string after trim(), timeout the timeout property of an object.
Value(kind, num, whole, inner, timeout) ==
    [kind |-> kind, num |-> num, whole |-> whole, inner |-> inner, timeout |-> timeout]

Undefined == Value("undefined", 0, FALSE, 0, <<>>)

Null == Value("null", 0, FALSE, 0, <<>>)

Number(n) == Value("number", n, TRUE, 0, <<>>)

\* A number between n and n + 1
Fraction(n) == Value("number", n, FALSE, 0, <<>>)

NaN == Value("nan", 0, FALSE, 0, <<>>)

String(len, inner) == Value("string", len, FALSE, inner, <<>>)

Object(timeout) == Value("object", 0, FALSE, 0, <<timeout>>)

\* !value is false
Truthy(v) ==
    CASE v.kind \in {"undefined", "null", "nan"} -> FALSE
      [] v.kind = "number" -> ~(v.whole /\ v.num = 0)
      [] v.kind = "string" -> v.num > 0
      [] OTHER -> TRUE

\* typeof value
TypeOf(v) ==
    CASE v.kind = "null" -> "object"
      [] v.kind = "nan" -> "number"
      [] OTHER -> v.kind

\* Number.isInteger(value)
IsInteger(v) == v.kind = "number" /\ v.whole

\* value < n and value > n, for the numbers and strings of the inputs: a
\* comparison with NaN, or with a string that is not a number, is false.
LessThan(v, n) == v.kind = "number" /\ (v.num < n)

GreaterThan(v, n) == v.kind = "number" /\ (v.num > n \/ (~v.whole /\ v.num >= n))

\* body.options?.timeout
TimeoutOf(options) ==
    IF options.kind = "object" THEN options.timeout[1] ELSE Undefined

Instructions ==
    {Undefined, Number(5), String(0, 0), String(3, 0), String(5, 5),
     String(MaxInstruction, MaxInstruction), String(MaxInstruction + 1, MaxInstruction + 1)}

Timeouts ==
    {Undefined, Number(-5), Number(0), Number(MinTimeout - 1), Number(MinTimeout),
     Number(120), Fraction(120), Number(MaxTimeout), Fraction(MaxTimeout),
     Number(MaxTimeout + 1), NaN, String(7, 7), String(0, 0)}

OptionsChoices ==
    {Undefined, Null, String(4, 4), Number(3)} \cup {Object(t) : t \in Timeouts}

\* Request bodies: null, a string, or an object with these two properties.
Bodies ==
    {[kind |-> "null", instruction |-> Undefined, options |-> Undefined],
     [kind |-> "string", instruction |-> Undefined, options |-> Undefined]}
    \cup [kind : {"object"}, instruction : Instructions, options : OptionsChoices]

\* The error of the instruction field, as a 0/1-element sequence.
InstructionErrors(i) ==
    IF ~Truthy(i) \/ TypeOf(i) # "string"
    THEN <<"Missing or invalid instruction field (must be a non-empty string)">>
    ELSE IF i.inner = 0 THEN <<"Instruction cannot be empty">>
    ELSE IF i.num > MaxInstruction
    THEN <<"Instruction is too long (maximum 1000 characters)">>
    ELSE <<>>

OptionsErrors(o) ==
    IF Truthy(o) /\ TypeOf(o) # "object"
    THEN <<"Options field must be an object">> ELSE <<>>

TimeoutErrors(t) ==
    IF Truthy(t) /\ (~IsInteger(t) \/ LessThan(t, MinTimeout) \/ GreaterThan(t, MaxTimeout))
    THEN <<"Timeout must be an integer between 10 and 600 seconds">> ELSE <<>>

\* validateRequest(body)
ValidateRequest(body) ==
    IF body.kind # "object"
    THEN [valid |-> FALSE, errors |-> <<"Request body must be a valid JSON object">>]
    ELSE LET errors == InstructionErrors(body.instruction)
                       \o OptionsErrors(body.options)
                       \o TimeoutErrors(TimeoutOf(body.options))
         IN  [valid |-> Len(errors) = 0, errors |-> errors]

validationRest == << executionMode, apiKey, door, dm, pm, call, wire, scroll, scan, rl,
                 activeTests, hpc, response, testOptions, deadline, runVars >>

\* A caller validates a body.
Validates(body) ==
    /\ eh' = [fn |-> "validateRequest", input |-> <<body>>,
              output |-> <<ValidateRequest(body)>>]
    /\ UNCHANGED validationRest

NextValidation == \E body \in Bodies : Validates(body)

SpecValidation == Init /\ [][NextValidation]_vars

\* Backend objects on their own: initialize, any method, cleanup, in any
\* order a caller may use them.
NextBackend ==
    \/ \E ok \in BOOLEAN : DmPull(ok)
    \/ \E ok \in BOOLEAN : DmCreate(ok)
    \/ \E ok \in BOOLEAN : DmStart(ok)
    \/ \E ok \in BOOLEAN : DmSetupStep(ok)
    \/ \E stopOk, removeOk \in BOOLEAN : DmCleanup(stopOk, removeOk)
    \/ \E op \in {"getFile", "putFile", "isRunning"}, how \in FileOutcomes :
           DmOperation(op, how)
    \/ DmExecute
    \/ \E ok \in BOOLEAN : ExecCreated(ok)
    \/ \E ok \in BOOLEAN : ExecStarted(ok)
    \/ StreamEnds
    \/ \E how \in {"zero", "nonzero", "raises"} : Inspected(how)
    \/ \E how \in {"ok", "launchFails", "pageFails"} : PmInitialize(how)
    \/ \E closeOk \in BOOLEAN : PmCleanup(closeOk)
    \/ \E ok \in BOOLEAN : PmCapture(ok)

SpecBackend == Init /\ [][NextBackend]_vars

\* A DockerManager on its own: initialize, then execute calls.
NextDocker ==
    \/ \E ok \in BOOLEAN : DmPull(ok)
    \/ \E ok \in BOOLEAN : DmCreate(ok)
    \/ \E ok \in BOOLEAN : DmStart(ok)
    \/ \E ok \in BOOLEAN : DmSetupStep(ok)
    \/ DmExecute
    \/ \E ok \in BOOLEAN : ExecCreated(ok)
    \/ \E ok \in BOOLEAN : ExecStarted(ok)
    \/ StreamEnds
    \/ StreamError
    \/ \E how \in {"zero", "nonzero", "raises"} : Inspected(how)
    \/ ExecTimerFires
    \/ Tick

SpecDocker == Init /\ [][NextDocker]_vars

\* ------------------------------------------------------------------------
\* Properties
\* ------------------------------------------------------------------------

\* execute() failed for a reason of the environment, not of the loop's own exit.
EnvFailures ==
    {"Failed to initialize Docker container", "Failed to initialize browser",
     "Failed to navigate to website", "Failed to take screenshot", "API error"}

\* The loop was left by its own exit: the while test or the break.
LoopEnded(r) == execResult[r].kind # "none" /\ execResult[r].msg \notin EnvFailures

\* Every response so far asked for a tool, and each was dispatched.
AlwaysAsked(r) == Len(messages[r]) = 2 * exchanges[r] + 1

\* The last response asked for no tool; all earlier ones did.
CompletedAt(r, k) ==
    /\ LoopEnded(r)
    /\ exchanges[r] = k
    /\ Len(messages[r]) = 2 * (k - 1) + 1

\* C1: with an agent that asks for a tool in every response the loop stops
\* at the cap: never more than maxIterations exchanges, and once the loop has
\* ended after nothing but tool requests, exactly maxIterations exchanges were
\* made and the run fails with 'Maximum iterations reached', not a success.
C1_CapEndsRun ==
    \A r \in Runs :
        /\ exchanges[r] <= maxIterations
        /\ iteration[r] <= maxIterations
        /\ (LoopEnded(r) /\ AlwaysAsked(r)) =>
              /\ exchanges[r] = maxIterations
              /\ execResult[r].kind = "throw"
              /\ execResult[r].msg = "Maximum iterations reached"
              /\ outcome[r].kind # "success"
              /\ (rpc[r] = "done" =>
                    /\ outcome[r].kind = "failure"
                    /\ outcome[r].message = "Maximum iterations reached")

\* C1 witness: a run that settled after maxIterations tool exchanges.
C1_Witness ==
    \E r \in Runs :
        /\ rpc[r] = "done"
        /\ executionMode = "puppeteer"
        /\ AlwaysAsked(r)
        /\ exchanges[r] = maxIterations
        /\ outcome[r].message = "Maximum iterations reached"

\* The timer won the race of slot r.
TimedOut(r) == hpc[r] = "returned" /\ response[r].error = "Test timeout"

\* The backend of slot r is no longer held: container stopped and removed,
\* browser closed.
TornDown(r) == container[r] # "live" /\ browser[r] = "null"

\* C2: when the deadline fires first, the backend is torn down even if the
\* pending call of the loop never returns: once the handler has answered
\* 'Test timeout' and the run is stuck in a call that never returns, the
\* created backend has been torn down.
C2_TimeoutTearsDown ==
    \A r \in Runs : (TimedOut(r) /\ hung[r] /\ created[r]) => TornDown(r)

\* The run of slot r is over: runTest settled, or the timer ended it and
\* its pending call never returns.
RunOver(r) == rpc[r] = "done" \/ (TimedOut(r) /\ hung[r])

\* C3: for every run whose backend was created, teardown is invoked exactly
\* once, however the run ends (Completed, Failed, timeout race).
C3_TeardownOnce ==
    \A r \in Runs : (created[r] /\ RunOver(r)) => cleanupCalls[r] = 1

\* A run is executing: it holds a backend and is inside the agent loop.
Executing(r) == created[r] /\ rpc[r] \in {"loopHead", "awaitAgent", "tool"}

\* C4: at most MAX_CONCURRENT_TESTS runs are executing at any moment.
C4_OneRunAtATime ==
    Cardinality({r \in Runs : Executing(r)}) <= MAX_CONCURRENT_TESTS

\* C5: if the k-th response (1 <= k <= maxIterations) has no tool invocation,
\* the loop returns {iterations: k, completed: true} and the run succeeds.
C5_CompletionIsSuccess ==
    \A r \in Runs : \A k \in 1..maxIterations :
        CompletedAt(r, k) =>
            /\ execResult[r].kind = "return"
            /\ execResult[r].iterations = k
            /\ (rpc[r] = "done" => outcome[r].kind = "success")

\* C6: the armed deadline never exceeds MAX_TEST_DURATION and is the clamped
\* value min(options.timeout or MAX_TEST_DURATION, MAX_TEST_DURATION).
C6_DeadlineClamped ==
    \A r \in Runs : \A d \in deadline[r] :
        /\ d <= MAX_TEST_DURATION
        /\ d = Min(TimeoutOrDefault(testOptions[r]), MAX_TEST_DURATION)

\* C7: the site the backend navigates to is the configured WEBSITE_URL,
\* whatever the client put in options.
C7_FixedSite ==
    \A r \in Runs : navigatedTo[r] \subseteq {WEBSITE_URL}

\* C8: every tool_use block of an agent turn is answered in the next user
\* turn by a tool_result with the same identifier, in order, none left out.
C8_EveryInvocationAnswered ==
    \A r \in Runs : \A i \in 1..Len(messages[r]) :
        (messages[r][i].role = "assistant" /\ messages[r][i].uses # <<>>) =>
            /\ i < Len(messages[r])
            /\ messages[r][i + 1].role = "user"
            /\ messages[r][i + 1].results = messages[r][i].uses

\* A tool invocation was dispatched in the current iteration of slot r.
Dispatched(r) == IsToolUse(lastDispatch[r].use)

\* C9: executeComputerUseTool returns a text and never raises, whatever the
\* invocation and whatever the backend does; the loop appends the tool-result
\* turn for that invocation and goes on to the next iteration.
C9_DispatchNeverRaises ==
    \A r \in Runs :
        Dispatched(r) =>
            /\ ~lastDispatch[r].result.raised
            /\ lastDispatch[r].result.text # ""
            /\ rpc[r] = "loopHead"
            /\ execResult[r].kind = "none"
            /\ messages[r][Len(messages[r])] = ToolResultTurn(lastDispatch[r].use)

\* C9 witness: a backend failure during a dispatch came back as text.
C9_Witness ==
    \E r \in Runs :
        /\ Dispatched(r)
        /\ lastDispatch[r].use.action = "click"
        /\ lastDispatch[r].result.text = "Error: backend failure"
        /\ rpc[r] = "loopHead"

\* The tool names the backend's switch knows.
KnownTools(mode) ==
    IF mode = "docker" THEN {"computer", "bash", "text_editor"} ELSE {"computer"}

KnownActions == {"screenshot", "click", "type", "key", "scroll"}

UnknownTool(mode, tu) == tu.name \notin KnownTools(mode)

UnknownAction(tu) ==
    tu.name = "computer" /\ tu.arg # "missing" /\ tu.action \notin KnownActions

\* C10: an unknown tool name, or an unknown action of 'computer', issues no
\* backend operation, yields a tool-result text naming the violation, and
\* leaves the loop running for the next iteration.
C10_UnknownIsReported ==
    \A r \in Runs :
        LET tu == lastDispatch[r].use
            res == lastDispatch[r].result
        IN  (Dispatched(r) /\ (UnknownTool(executionMode, tu) \/ UnknownAction(tu))) =>
                /\ res.ops = 0
                /\ ~res.shot
                /\ res.text = (IF UnknownTool(executionMode, tu)
                               THEN "Error: Unknown tool"
                               ELSE "Error: Unknown computer action")
                /\ rpc[r] = "loopHead"
                /\ execResult[r].kind = "none"
                /\ outcome[r].kind = "none"

\* C10 witness: an unknown action was answered and the loop is at its head
\* with iterations left.
C10_Witness ==
    \E r \in Runs :
        /\ Dispatched(r)
        /\ lastDispatch[r].use.action = "hover"
        /\ lastDispatch[r].result.text = "Error: Unknown computer action"
        /\ rpc[r] = "loopHead"
        /\ LoopContinues(iteration[r])

\* ------------------------------------------------------------------------
\* What the caller sees of a run
\* ------------------------------------------------------------------------

\* The keys of the object runTest returns on success.
SuccessKeys ==
    {"success", "message", "duration", "screenshots", "log", "error", "testId",
     "executionMode", "timestamp"}

\* The keys of the object runTest throws from its catch.
FailureKeys == {"message", "duration", "screenshots", "testId", "executionMode"}

\* The keys of the JSON body the handler answers with: the whole result of
\* runTest on 200, the object literal of the handler's catch on 500.
BodyKeys(resp) ==
    IF resp.status = 200 THEN SuccessKeys
    ELSE {"success", "error", "testId", "timestamp"}

\* The handler of slot r has answered its caller with a failure.
AnsweredFailure(r) == hpc[r] = "returned" /\ ~response[r].success

RECURSIVE IsSubSeq(_, _)
\* Every entry of s occurs in t, in the same order.
IsSubSeq(s, t) ==
    IF s = <<>> THEN TRUE
    ELSE IF t = <<>> THEN FALSE
    ELSE IF s[1] = t[1] THEN IsSubSeq(Tail(s), Tail(t))
    ELSE IsSubSeq(s, Tail(t))

\* C11: whenever a run fails, the result delivered to the caller carries the
\* run's duration, the log accumulated so far, and every screenshot that was
\* on the trail before the failure.
C11_FailureCarriesProgress ==
    \A r \in Runs :
        AnsweredFailure(r) =>
            /\ {"duration", "log", "screenshots"} \subseteq BodyKeys(response[r])
            /\ (rpc[r] = "done" /\ ~TimedOut(r)) =>
                  IsSubSeq(SelectSeq(screenshots[r], LAMBDA s : s # "Error state"),
                           response[r].screenshots)

\* The invocation asks for a pointer action at a coordinate that is not a
\* pixel of the 1280x720 display, or that is no coordinate at all.
BadCoordinate(tu) ==
    tu.name = "computer" /\ tu.action \in {"click", "scroll"} /\ tu.arg # "ok"

\* C12: a click or scroll whose coordinate is outside the display, or
\* malformed, is never issued to the backend: the dispatch issues no backend
\* operation and answers with an error result.
C12_CoordinatesValidated ==
    \A r \in Runs :
        LET tu == lastDispatch[r].use
            res == lastDispatch[r].result
        IN  (Dispatched(r) /\ BadCoordinate(tu)) =>
                /\ res.ops = 0
                /\ res.text \notin {"Clicked at", "Scrolled"}

\* ------------------------------------------------------------------------
\* Phases of a run
\* ------------------------------------------------------------------------

\* The phase of the run of slot r, read off the position of runTest and the
\* way execute() ended.
PhaseOf(r) ==
    CASE rpc[r] = "idle" -> "Idle"
      [] rpc[r] = "init" -> "Initializing"
      [] rpc[r] = "navigate" -> "Navigating"
      [] rpc[r] \in {"loopHead", "awaitAgent", "tool"} -> "Iterating"
      [] OTHER -> IF execResult[r].kind = "return" THEN "Completed" ELSE "Failed"

\* The phase changes a run may make; the last two are a new request taking
\* over the slot of a settled run.
PhaseOrder ==
    {<<"Idle", "Initializing">>, <<"Initializing", "Navigating">>,
     <<"Navigating", "Iterating">>, <<"Iterating", "Completed">>,
     <<"Initializing", "Failed">>, <<"Navigating", "Failed">>,
     <<"Iterating", "Failed">>,
     <<"Completed", "Initializing">>, <<"Failed", "Initializing">>}

PhaseStep(r) ==
    PhaseOf(r)' # PhaseOf(r) => <<PhaseOf(r), PhaseOf(r)'>> \in PhaseOrder

\* The run of slot r ended by the agent's first response carrying no tool
\* invocation.
CompletedFirst(r) == CompletedAt(r, 1)

\* C13: when the agent's first response signals completion, the run has gone
\* Initializing, Navigating, Iterating, Completed in that order (phases are
\* only ever entered from their predecessor), exactly one exchange was made,
\* no tool was dispatched, and the caller receives success = true.
C13_FirstResponseCompletion ==
    /\ [][\A r \in Runs : PhaseStep(r)]_vars
    /\ [](\A r \in Runs :
            CompletedFirst(r) =>
                /\ PhaseOf(r) = "Completed"
                /\ navigatedTo[r] # {}
                /\ exchanges[r] = 1
                /\ iteration[r] = 1
                /\ messages[r] = <<InstructionTurn>>
                /\ ~Dispatched(r)
                /\ execResult[r].kind = "return"
                /\ (rpc[r] = "done" => outcome[r].kind = "success")
                /\ (hpc[r] = "returned" =>
                      response[r].status = 200 /\ response[r].success))

\* C13 witness: a run answered with success after one exchange and no dispatch.
C13_Witness ==
    \E r \in Runs :
        /\ CompletedFirst(r)
        /\ hpc[r] = "returned"
        /\ response[r].success
        /\ exchanges[r] = 1
        /\ executionMode = "docker"

\* The roles of the turns of a conversation, in order.
Roles(msgs) == [i \in 1..Len(msgs) |-> msgs[i].role]

\* The loop of slot r returned after two exchanges: the first response asked
\* for one tool (the click of the stub agent), the second for none.
ClickThenDone(r) ==
    /\ execResult[r].kind = "return"
    /\ exchanges[r] = 2
    /\ Len(messages[r]) >= 2
    /\ messages[r][2].uses = <<BlockId(1, 1)>>

\* C14: after one click on iteration 1 and completion on iteration 2 the
\* conversation has exactly 4 turns: instruction (user), agent turn with the
\* tool call, tool result (user), agent completion turn.
C14_FourTurns ==
    \A r \in Runs :
        ClickThenDone(r) =>
            /\ Roles(messages[r]) = <<"user", "assistant", "user", "assistant">>
            /\ messages[r][3].results = messages[r][2].uses
            /\ messages[r][4].uses = <<>>

\* Screenshot capture is enabled for the run of slot r.
CaptureEnabled(r) ==
    "takeScreenshots" \in DOMAIN testOptions[r] /\ testOptions[r]["takeScreenshots"]

\* C15: with capture enabled (and every capture succeeding) and an agent that
\* completes on iteration 1, the trail, and the trail of the returned result,
\* is <<'Initial state', 'Navigated to <site>'>> on either backend.
C15_InitialThenNavigated ==
    \A r \in Runs :
        (CompletedFirst(r) /\ CaptureEnabled(r)) =>
            /\ screenshots[r] = <<"Initial state", "Navigated to">>
            /\ (rpc[r] = "done" => outcome[r].screenshots = screenshots[r])

\* The request of slot r was admitted with takeScreenshots set to false.
CaptureDisabled(r) == hpc[r] # "free" /\ ~CaptureEnabled(r)

\* C16: when the request sets takeScreenshots to false the trail is empty in
\* every state of the run, and so is the trail of the result and of the
\* response, whatever is dispatched ('screenshot' actions included) and
\* whether or not the error-state capture runs.
C16_DisabledMeansEmpty ==
    \A r \in Runs :
        CaptureDisabled(r) =>
            /\ screenshots[r] = <<>>
            /\ ~lastDispatch[r].result.shot
            /\ outcome[r].screenshots = <<>>
            /\ response[r].screenshots = <<>>

\* C16 witness: with capture disabled a 'screenshot' action was dispatched
\* and answered.
C16_Witness ==
    \E r \in Runs :
        /\ CaptureDisabled(r)
        /\ Dispatched(r)
        /\ lastDispatch[r].use.action = "screenshot"
        /\ lastDispatch[r].result.text = "Screenshot taken"

\* ------------------------------------------------------------------------
\* The active-test set
\* ------------------------------------------------------------------------

\* The handler invocation of slot r is between registration and its finally.
InFlight(r) == hpc[r] = "racing"

\* The run of slot r has started (runTest was called) and has not settled.
RunStarted(r) == rpc[r] \notin {"idle", "done"}

\* A step in which the front door turned a request away.
RejectStep == door' # door

\* C17: a test id is in the active set exactly while its handler invocation
\* is between registration and return: it is there before the run starts,
\* gone once the handler has returned by success, thrown failure or timeout,
\* and a request rejected at the front door adds none.
C17_RegisteredWhileInFlight ==
    /\ [](\A r \in Runs :
            /\ (r \in activeTests) <=> InFlight(r)
            /\ (RunStarted(r) /\ hpc[r] # "returned") => r \in activeTests)
    /\ [][RejectStep => (activeTests' = activeTests /\ hpc' = hpc /\ rpc' = rpc)]_vars

\* C17 witness: a request was rejected with 429 while a run was in flight,
\* and that run's handler has since returned on the timeout path, its id
\* removed.
C17_Witness ==
    \E r \in Runs :
        /\ door.status = 429
        /\ TimedOut(r)
        /\ RunStarted(r)
        /\ r \notin activeTests

\* ------------------------------------------------------------------------
\* Failures before the loop
\* ------------------------------------------------------------------------

InitFailures == {"Failed to initialize Docker container", "Failed to initialize browser"}

\* The run of slot r failed in backend initialization / in navigation.
InitFailed(r) == execResult[r].kind = "throw" /\ execResult[r].msg \in InitFailures

NavigationFailed(r) ==
    execResult[r].kind = "throw" /\ execResult[r].msg = "Failed to navigate to website"

\* C18: a failed initialization ends the run in Failed with no iteration, no
\* agent exchange and no navigation attempt; a failed navigation ends it in
\* Failed with no agent exchange.
C18_NoLoopAfterEarlyFailure ==
    \A r \in Runs :
        /\ InitFailed(r) =>
              /\ PhaseOf(r) = "Failed"
              /\ iteration[r] = 0
              /\ exchanges[r] = 0
              /\ navigatedTo[r] = {}
              /\ messages[r] = <<>>
              /\ (rpc[r] = "done" =>
                    outcome[r].kind = "failure" /\ outcome[r].message = execResult[r].msg)
        /\ NavigationFailed(r) =>
              /\ PhaseOf(r) = "Failed"
              /\ iteration[r] = 0
              /\ exchanges[r] = 0
              /\ messages[r] = <<>>
              /\ (rpc[r] = "done" =>
                    outcome[r].kind = "failure" /\ outcome[r].message = execResult[r].msg)

\* C18 witness: a run that settled as failed after its navigation raised.
C18_Witness ==
    \E r \in Runs :
        /\ NavigationFailed(r)
        /\ navigatedTo[r] # {}
        /\ rpc[r] = "done"
        /\ outcome[r].kind = "failure"

\* ------------------------------------------------------------------------
\* DockerManager: provisioning and the per-call budget
\* ------------------------------------------------------------------------

\* initialize() has settled: it returned (ready) or raised (failed).
InitializeSettled == dm.pc \in {"ready", "failed"}

\* C19: initialize() raises whenever the final display-readiness check
\* failed; failures of earlier setup commands alone do not make it raise, and
\* every setup command is attempted, in order, whatever failed before it.
C19_ReadinessIsLoadBearing ==
    /\ (InitializeSettled /\ dm.readyFailed) =>
          (dm.pc = "failed" /\ dm.error = "Failed to initialize Docker container")
    /\ (InitializeSettled /\ dm.step > 0 /\ ~dm.readyFailed) => dm.pc = "ready"
    /\ (dm.pc = "setup" => dm.attempted = dm.step - 1)
    /\ (InitializeSettled /\ dm.step > 0) => dm.attempted = SetupSteps

\* An execute call was made on the initialized container and has not settled.
PendingOnInitialized == dm.pc = "ready" /\ CallPending

\* C20: an execute call on an initialized container settles within the
\* 30-second budget counted from the call, whichever of its awaits is slow:
\* a pending call is never older than the budget, a settled call settled
\* within it, and at the end of the budget the call's timer is due (so the
\* call fails with the timeout error).
C20_SettlesWithinBudget ==
    /\ PendingOnInitialized => call.elapsed <= ExecTimeout
    /\ (dm.pc = "ready" /\ call.pc = "settled") => call.elapsed <= ExecTimeout
    /\ (PendingOnInitialized /\ call.elapsed = ExecTimeout) => TimerDue(call)

\* ------------------------------------------------------------------------
\* DockerManager.execute: demultiplexing
\* ------------------------------------------------------------------------

\* C21: for a command that exits with status 0, execute returns exactly the
\* concatenated payloads of the stdout frames, with no header byte and no
\* stderr payload, however the frames were split or merged into chunks.
C21_ReturnsStdoutPayload ==
    wire.pc = "resolved" => wire.returned = PayloadOf(wire.frames, STDOUT)

\* ------------------------------------------------------------------------
\* Teardown
\* ------------------------------------------------------------------------

\* The last call on the manager was a cleanup() that found a container.
CleanedContainer == dm.last.op = "cleanup" /\ dm.last.touched

\* C22: cleanup() on an initialized container always attempts the
\* force-remove, also when stop failed, never raises because stop or remove
\* failed, and leaves this.container null in every outcome.
C22_CleanupIsFaultTolerant ==
    /\ [](CleanedContainer =>
            /\ dm.last.stop # "none"
            /\ dm.last.remove # "none"
            /\ dm.last.result = "returned")
    /\ [][dm'.cleanups # dm.cleanups => dm'.container = "null"]_vars

\* C22 witness: a cleanup of an initialized container whose stop and remove
\* both failed.
C22_Witness ==
    /\ CleanedContainer
    /\ dm.pc = "ready"
    /\ dm.last.stop = "failed"
    /\ dm.last.remove = "failed"

\* A further cleanup() on an object whose last call was a completed cleanup().
SecondDockerCleanup == dm.last.op = "cleanup" /\ dm'.cleanups # dm.cleanups

SecondProcessCleanup == pm.last.op = "cleanup" /\ pm'.cleanups # pm.cleanups

\* C23: once a cleanup() has completed, a further cleanup() issues no stop,
\* remove or browser close and returns normally, for both backends, also
\* when the first browser.close() failed.
C23_TeardownIdempotent ==
    /\ [][SecondDockerCleanup =>
            ~dm'.last.touched /\ dm'.last.result = "returned"]_vars
    /\ [][SecondProcessCleanup =>
            ~pm'.last.touched /\ pm'.last.result = "returned"]_vars

\* The manager has no environment: initialize() was never called, or the last
\* call on it was cleanup().
ManagerNotReady == dm.pc = "new" \/ dm.last.op = "cleanup"

\* The step is a call of getFile, putFile or isRunning.
FileCall == dm'.last # dm.last /\ dm'.last.op \in {"getFile", "putFile", "isRunning"}

\* The step is a call of execute.
ExecuteCall == call.pc \in {"idle", "settled"} /\ call' # call

\* The step is a call of captureScreenshot on the process backend.
CaptureCall == pm'.cleanups = pm.cleanups /\ pm'.last.op = "captureScreenshot"

\* C24: before initialize() and after cleanup() execute, getFile and putFile
\* raise without touching the container and isRunning returns false; after
\* cleanup() captureScreenshot of the process backend returns null without
\* touching the browser.
C24_NoOperationUnlessReady ==
    /\ [][ManagerNotReady /\ FileCall =>
            /\ ~dm'.last.touched
            /\ dm'.last.result = IF dm'.last.op = "isRunning" THEN "false"
                                 ELSE "raised: Container not initialized"]_vars
    /\ [][ManagerNotReady /\ ExecuteCall =>
            call'.pc = "settled" /\ call'.result = "Container not initialized"]_vars
    /\ [][pm.last.op = "cleanup" /\ CaptureCall =>
            ~pm'.last.touched /\ pm'.last.result = "null"]_vars

\* C25: a failure of the teardown never changes the outcome of the run: what
\* the try block of execute produced is what runTest settles with, a return
\* as the success object and a raise as the failure with the same message.
C25_TeardownNeverMasks ==
    \A r \in Runs :
        rpc[r] = "done" =>
            /\ execResult[r].kind = "return" =>
                  /\ outcome[r].kind = "success"
                  /\ outcome[r].iterations = execResult[r].iterations
            /\ execResult[r].kind = "throw" =>
                  /\ outcome[r].kind = "failure"
                  /\ outcome[r].message = execResult[r].msg

\* C25 witness: a run in process mode that completed and whose browser failed
\* to close (the handle is still set after cleanup) settled as a success.
C25_Witness ==
    /\ rpc[1] = "done"
    /\ executionMode = "puppeteer"
    /\ cleanupCalls[1] = 1
    /\ browser[1] = "open"
    /\ execResult[1].kind = "return"
    /\ outcome[1].kind = "success"

\* ------------------------------------------------------------------------
\* Tool vocabulary and actuation
\* ------------------------------------------------------------------------

\* The tool names other than 'computer' that the container adapter offers.
ShellTools == {"bash", "text_editor"}

\* The texts handleBashAction returns once it has run a command.
ShellResults == {"Command output", "Error executing command"}

\* C26: in process mode no request offers a shell tool, a 'bash' or
\* 'text_editor' invocation issues no backend operation and gives the error
\* tool-result, and a shell result only ever comes from the container adapter.
C26_NoShellInProcessMode ==
    \A r \in Runs :
        /\ (executionMode = "puppeteer" /\ rpc[r] = "awaitAgent") =>
              GetComputerUseTools(executionMode) \cap ShellTools = {}
        /\ (executionMode = "puppeteer" /\ lastDispatch[r].use.name \in ShellTools) =>
              /\ lastDispatch[r].result.ops = 0
              /\ ~lastDispatch[r].result.raised
              /\ lastDispatch[r].result.text = "Error: Unknown tool"
        /\ lastDispatch[r].result.text \in ShellResults =>
              executionMode = "docker" /\ lastDispatch[r].use.name = "bash"

\* C26 witness: in process mode the agent asked for 'bash' and the dispatch
\* answered with the error text.
C26_Witness ==
    /\ executionMode = "puppeteer"
    /\ lastDispatch[1].use.name = "bash"
    /\ lastDispatch[1].result.text = "Error: Unknown tool"
    /\ rpc[1] = "loopHead"

\* The actions of the 'computer' tool that change the page.
UiMutating(tu) == tu.name = "computer" /\ tu.action \in {"click", "type", "key", "scroll"}

\* The texts the handlers return for an action that was carried out.
ActionTexts == {"Clicked at", "Typed:", "Pressed key:", "Scrolled"}

\* The next screenshot for the agent is about to be taken after a dispatch
\* that reached the backend with a UI-mutating action.
ShotAfterAction(r) ==
    /\ rpc[r] = "loopHead"
    /\ UiMutating(lastDispatch[r].use)
    /\ lastDispatch[r].result.ops > 0

\* C27: when the next screenshot for the agent is taken after a click, type,
\* key or scroll that reached the backend, a wait has completed in between:
\* the handler's own settle wait when the action was carried out, the
\* inter-iteration wait in every case; and the dispatch took no screenshot
\* between the action and its wait.
C27_SettleBeforeNextShot ==
    \A r \in Runs :
        ShotAfterAction(r) =>
            /\ lastDispatch[r].result.settled \/ lastDispatch[r].delayed
            /\ lastDispatch[r].result.text \in ActionTexts => lastDispatch[r].result.settled
            /\ ~lastDispatch[r].result.shot

\* C27 witness: a scroll was carried out and the loop is back at its head.
C27_Witness ==
    /\ ShotAfterAction(1)
    /\ lastDispatch[1].use.action = "scroll"
    /\ lastDispatch[1].result.text = "Scrolled"
    /\ lastDispatch[1].result.settled

\* Both adapters have carried out the same scroll invocation.
BothScrolled == scroll.pc = "asked" /\ scroll.docker # <<>> /\ scroll.process # <<>>

\* The magnitude of an invocation: the supplied clicks, or the default.
Magnitude(input) == IF input.clicks.given THEN input.clicks.n ELSE DefaultClicks

\* C28: for the same scroll invocation both adapters scroll at the given
\* point, by the same signed amount, whose size is the supplied magnitude or
\* the default when none is supplied.
C28_ScrollSameSemantics ==
    BothScrolled =>
        /\ scroll.docker.mousemove = scroll.input.coordinate
        /\ scroll.process.move = scroll.input.coordinate
        /\ DockerNotches(scroll.docker) = ProcessNotches(scroll.process)
        /\ DockerNotches(scroll.docker) =
              IF scroll.input.direction = "down" THEN Magnitude(scroll.input)
              ELSE -Magnitude(scroll.input)

\* ------------------------------------------------------------------------
\* The scan for orphaned containers
\* ------------------------------------------------------------------------

\* The ids of the listed containers that the filter keeps.
Matching == {i \in DOMAIN scan.daemon : IsTestContainer(scan.daemon[i])}

\* C29: the scan never raises; a failed listing ends it with nothing
\* attempted, and after a successful listing every matching container has
\* had its remove attempted, whatever the earlier removes did.
C29_ScanNeverRaises ==
    /\ ~scan.raised
    /\ scan.pc = "done" =>
          scan.attempted = IF scan.listed THEN Matching ELSE {}

\* C29 witness: the remove of the first matching container failed and the
\* second one was still removed.
C29_Witness ==
    /\ scan.pc = "done"
    /\ 1 \in scan.attempted \ scan.removed
    /\ 2 \in scan.removed

\* The name starts with the run-name prefix, after the daemon's slash.
StartsWithPrefix(name) == Len(name) >= 2 /\ name[1] = "/" /\ name[2] = RunPrefix

\* C30: the scan removes only leftovers: never the container of a run that is
\* still executing, never one whose names only hold the prefix further in.
C30_RemovesOnlyLeftovers ==
    \A i \in scan.removed :
        /\ ~scan.daemon[i].live
        /\ \E k \in 1..Len(scan.daemon[i].Names) : StartsWithPrefix(scan.daemon[i].Names[k])

\* ------------------------------------------------------------------------
\* The rate limiter
\* ------------------------------------------------------------------------

\* The requests of an IP that were allowed in the hour starting at t.
AllowedInHour(ip, t) ==
    LET Sum[u \in Ticks \cup {-TickMinutes}] ==
            IF u < t THEN 0
            ELSE (IF u < t + HourMinutes THEN rl.allowedAt[ip][u] ELSE 0)
                 + (IF u - TickMinutes < t THEN 0 ELSE Sum[u - TickMinutes])
    IN  Sum[MaxNow - (MaxNow % TickMinutes)]

\* C31: when every allowed request is recorded, no IP is allowed more than
\* maxRequestsPerHour requests within any one-hour period, and the request
\* after the limit is reached is denied with 'Rate limit exceeded' and
\* remaining 0.
C31_QuotaPerHour ==
    /\ \A ip \in IPs, t \in Ticks : AllowedInHour(ip, t) <= maxRequestsPerHour
    /\ rl.verdict.reason = "Rate limit exceeded" => rl.verdict.remaining = 0

\* As many tests are registered as may run at once.
LimiterBusy == Cardinality(rl.tests) >= maxConcurrentTests

\* The block of the IP is in force.
BlockedNow(ip) == rl.requests[ip].blocked /\ rl.now < rl.requests[ip].blockUntil

\* The IP has used up the quota of its current window.
OverQuota(ip) == WindowReset(rl, GetOrCreate(rl, ip)).count >= maxRequestsPerHour

\* C32: while at least maxConcurrentTests tests are registered a check of any
\* IP is denied, with 'Too many concurrent tests' when the IP is neither
\* blocked nor over its quota, and the check does not raise the IP's count
\* nor touch the tests; with fewer tests registered the same check of such
\* an IP is allowed.
C32_ConcurrencyGate ==
    \A ip \in IPs :
        LET after == IsRequestAllowed(rl, ip)
            free == ~BlockedNow(ip) /\ ~OverQuota(ip)
        IN  /\ LimiterBusy =>
                  /\ ~after.verdict.allowed
                  /\ free => /\ after.verdict.reason = "Too many concurrent tests"
                             /\ after.verdict.remaining =
                                   maxRequestsPerHour - after.requests[ip].count
                  /\ after.requests[ip].count \in {rl.requests[ip].count, 0}
                  /\ after.tests = rl.tests
            /\ (~LimiterBusy /\ free) => after.verdict.allowed

\* C32 witness: the IP was denied for concurrency, the tests were
\* unregistered, and its next check was allowed.
C32_Witness ==
    /\ rl.verdict.ip = "a"
    /\ rl.verdict.allowed
    /\ rl.verdict.before = "Too many concurrent tests"
    /\ ~rl.requests["b"].present
    /\ rl.requests["a"].count > 0
    /\ rl.tests = {}

\* C39: while the block of an IP is in force a check of the IP is denied and
\* leaves its entry as it is, and no step of the limiter (check, record,
\* register, unregister, cleanup interval, passing time) removes the entry,
\* lifts the block or moves blockUntil.
C39_BlockHolds ==
    /\ [](\A ip \in IPs :
            BlockedNow(ip) =>
                /\ ~IsRequestAllowed(rl, ip).verdict.allowed
                /\ IsRequestAllowed(rl, ip).verdict.reason = "IP temporarily blocked"
                /\ IsRequestAllowed(rl, ip).requests = rl.requests)
    /\ [][\A ip \in IPs :
            BlockedNow(ip) =>
                /\ rl'.requests[ip].present
                /\ rl'.requests[ip].blocked
                /\ rl'.requests[ip].blockUntil = rl.requests[ip].blockUntil]_vars

\* C39 witness: a blocked IP was checked again and denied, past the reset
\* time of its window and before its blockUntil.
C39_Witness ==
    /\ BlockedNow("a")
    /\ rl.now > rl.requests["a"].resetTime
    /\ rl.verdict.ip = "a"
    /\ rl.verdict.reason = "IP temporarily blocked"
    /\ rl.verdict.before = "IP temporarily blocked"

\* ------------------------------------------------------------------------
\* Request validation
\* ------------------------------------------------------------------------

\* The value was given: the property is present and not null.
Given(v) == v.kind \notin {"undefined", "null"}

\* A string of 1 to 1000 characters that is not blank.
GoodInstruction(i) ==
    i.kind = "string" /\ i.num >= 1 /\ i.num <= MaxInstruction /\ i.inner > 0

\* An integer between 10 and 600.
GoodTimeout(t) == t.kind = "number" /\ t.whole /\ t.num >= MinTimeout /\ t.num <= MaxTimeout

\* The bodies to be accepted.
WellFormed(body) ==
    /\ body.kind = "object"
    /\ GoodInstruction(body.instruction)
    /\ Given(body.options) =>
          /\ body.options.kind = "object"
          /\ Given(body.options.timeout[1]) => GoodTimeout(body.options.timeout[1])

\* C33: validateRequest returns valid exactly for the well-formed bodies, and
\* at least one error message with every other body.
C33_ValidatesExactly ==
    eh.fn = "validateRequest" =>
        /\ eh.output[1].valid <=> WellFormed(eh.input[1])
        /\ ~eh.output[1].valid => Len(eh.output[1].errors) >= 1

\* ------------------------------------------------------------------------
\* Status codes of the error responses
\* ------------------------------------------------------------------------

\* The handler answered slot r with this error text.
AnsweredError(r, text) == AnsweredFailure(r) /\ response[r].error = text

\* C34: an error response carries the status code of its category: 503 for
\* a container failure, 429 for a concurrency rejection, 400 for a request
\* that fails validation, 408 for a run ended by the timeout.
C34_StatusOfCategory ==
    /\ door.error = "Too many concurrent tests" => door.status = 429
    /\ door.error = "Missing or invalid instruction" => door.status = 400
    /\ \A r \in Runs :
          /\ AnsweredError(r, "Failed to initialize Docker container") =>
                response[r].status = 503
          /\ AnsweredError(r, "Test timeout") => response[r].status = 408

\* ------------------------------------------------------------------------
\* C35: requests turned away at the front door
\* ------------------------------------------------------------------------

\* The state a run lives in: the registered ids, the handler's position and
\* response, the merged options and timer, and everything runTest touches
\* (backends, agent exchanges, conversation, trail).
SharedState == << activeTests, hpc, response, testOptions, deadline, runVars >>

\* The handler answered a request at the front door in this step.
Rejects == door' # door

\* The answer the code gives to each kind of request it turns away, on a
\* server whose API key is configured, for a body that parses.
StatusOfRequest ==
    \A req \in Requests :
        LET a == FrontDoor(req, apiKey, activeTests) IN
        /\ req.method = "OPTIONS" => a.status = 200 /\ a.error = ""
        /\ req.method \notin {"OPTIONS", "POST"} => a.status = 405
        /\ (apiKey /\ req.method = "POST"
               /\ req.body \in {"noInstruction", "nonString"}) => a.status = 400
        /\ (apiKey /\ req = ValidPost /\ activeTests # {}) =>
               a.status = 429 /\ a.retryAfter = GateRetryAfter

RunStarts(r) == rpc[r] # "init" /\ rpc'[r] = "init"

\* A request was sent to the agent in this step.
RequestSent(r) == ~RunStarts(r) /\ exchanges'[r] # exchanges[r]

\* A tool invocation was handed to executeComputerUseTool in this step.
DispatchedNow(r) == ~RunStarts(r) /\ lastDispatch'[r] # lastDispatch[r] /\ Dispatched(r)'

\* C36: a run sends at most maxIterations requests to the agent; each request
\* is sent by the step that opened a new iteration and took that iteration's
\* screenshot, one request per iteration; and an iteration dispatches at most
\* one tool invocation: the dispatch happens while none was made since the
\* iteration's screenshot, for the first tool_use block of the response, and
\* neither opens an iteration nor sends a request.
C36_OneShotOneDispatch ==
    /\ [](\A r \in Runs : exchanges[r] <= maxIterations /\ exchanges[r] <= iteration[r])
    /\ [][\A r \in Runs :
            /\ RequestSent(r) =>
                  /\ rpc[r] = "loopHead"
                  /\ rpc'[r] = "awaitAgent"
                  /\ exchanges'[r] = exchanges[r] + 1
                  /\ iteration'[r] = iteration[r] + 1
            /\ DispatchedNow(r) =>
                  /\ rpc[r] = "tool"
                  /\ lastDispatch[r] = NoDispatch
                  /\ lastDispatch'[r].use = FirstToolUse(pending[r])
                  /\ iteration'[r] = iteration[r]
                  /\ exchanges'[r] = exchanges[r]]_vars

\* C36 witness: the last permitted request was sent and its response, which
\* carried two invocations, led to one dispatch.
C36_Witness ==
    \E r \in Runs :
        /\ exchanges[r] = maxIterations
        /\ iteration[r] = maxIterations
        /\ Dispatched(r)
        /\ Len(messages[r][Len(messages[r]) - 1].uses) = 2

\* ------------------------------------------------------------------------
\* C37: the turn sequence of a request
\* ------------------------------------------------------------------------

\* A request of slot r is with the agent.  Since it was sent neither the
\* messages array nor the iteration counter has changed.
AwaitingAgent(r) == rpc[r] = "awaitAgent"

\* The turns of that request.
SentTurns(r) == RequestMessages(messages[r], iteration[r])

Alternates(turns) ==
    \A i \in 1..(Len(turns) - 1) : turns[i].role # turns[i + 1].role

ImagePositions(turns) == {i \in 1..Len(turns) : turns[i].image # 0}

\* C37: the turns of every request start with the instruction, alternate
\* between the user and the agent, end with a user turn, and hold one image:
\* the screenshot taken in the request's iteration, in the last turn.
C37_RequestShape ==
    \A r \in Runs :
        AwaitingAgent(r) =>
            LET turns == SentTurns(r) IN
            /\ turns[1] = InstructionTurn
            /\ Alternates(turns)
            /\ turns[Len(turns)].role = "user"
            /\ ImagePositions(turns) = {Len(turns)}
            /\ turns[Len(turns)].image = iteration[r]

\* C37 witness: the request of the third iteration, after two dispatches of
\* which one answered a response with two invocations.
C37_Witness ==
    \E r \in Runs :
        /\ AwaitingAgent(r)
        /\ iteration[r] = 3
        /\ Len(SentTurns(r)) = 7
        /\ \E i \in 1..Len(messages[r]) : Len(messages[r][i].uses) = 2

\* ------------------------------------------------------------------------
\* C38: initialization fails after the resource exists
\* ------------------------------------------------------------------------

\* Initialization of slot r raised after createContainer or puppeteer.launch
\* had resolved.
FailedAfterCreate(r) ==
    /\ created[r]
    /\ execResult[r].kind = "throw"
    /\ execResult[r].msg \in InitFailures

\* The handle of the created resource is still set in slot r.
HandleSet(r) == container[r] = "live" \/ browser[r] = "noPage"

\* cleanup() of slot r's backend was called in this step.
CleanupCalled(r) == ~RunStarts(r) /\ cleanupCalls'[r] # cleanupCalls[r]

\* C38: when initialization raises after the container or browser was
\* created, the teardown is called once on the set handle, so that stop and
\* remove, or close, are issued, while the request is still unanswered; by
\* the time runTest has settled, and when the handler answers with the
\* initialization failure, that call has been made and the container handle
\* is released (the browser handle too unless close() itself failed).
C38_InitFailureTearsDown ==
    /\ [](\A r \in Runs :
            (FailedAfterCreate(r)
               /\ (rpc[r] = "done" \/ AnsweredError(r, execResult[r].msg))) =>
                /\ rpc[r] = "done"
                /\ cleanupCalls[r] = 1
                /\ container[r] # "live")
    /\ [][\A r \in Runs :
            (CleanupCalled(r) /\ FailedAfterCreate(r)) =>
                /\ HandleSet(r)
                /\ cleanupCalls[r] = 0
                /\ hpc[r] = "racing" \/ TimedOut(r)
                /\ container'[r] # "live"
                /\ browser'[r] \in {"null", browser[r]}]_vars

\* C38 witness: the container was created, start or provisioning raised, and
\* the handler answered with that failure after the container was let go.
C38_Witness ==
    \E r \in Runs :
        /\ executionMode = "docker"
        /\ created[r]
        /\ AnsweredError(r, "Failed to initialize Docker container")
        /\ cleanupCalls[r] = 1
        /\ container[r] = "null"

\* ------------------------------------------------------------------------
\* C40: the 'Error state' capture and the teardown
\* ------------------------------------------------------------------------

\* runTest of slot r has thrown its failure object.
Failed(r) == outcome[r].kind = "failure"

\* runTest's catch of slot r is about to attempt the 'Error state' capture.
AtErrorCapture(r) == rpc[r] = "rtCatch"

\* C40: in process mode the 'Error state' capture comes after the teardown
\* of the browser and captures nothing, so every failure object of runTest
\* has an empty screenshots list; in container mode the capture is attempted
\* before the container's teardown.
C40_ErrorShotAfterTeardown ==
    \A r \in Runs :
        /\ (executionMode = "puppeteer" /\ AtErrorCapture(r)) => cleanupCalls[r] = 1
        /\ (executionMode = "puppeteer" /\ Failed(r)) => outcome[r].screenshots = <<>>
        /\ (executionMode = "docker" /\ AtErrorCapture(r)) => cleanupCalls[r] = 0

\* The same with the failure objects restricted to runs whose browser handle
\* was released by the teardown.
ErrorShotEmptyOnceClosed ==
    \A r \in Runs :
        /\ (executionMode = "puppeteer" /\ AtErrorCapture(r)) => cleanupCalls[r] = 1
        /\ (executionMode = "puppeteer" /\ Failed(r) /\ browser[r] = "null") =>
               outcome[r].screenshots = <<>>
        /\ (executionMode = "docker" /\ AtErrorCapture(r)) => cleanupCalls[r] = 0

====
